---- MODULE Spec2Model ----
(***************************************************************************)
(* Intent routing and entity extraction of the PartSelect chat agent:      *)
(* RouterAgent.route, CompatibilityAgent.extract_part_and_model,           *)
(* extract_from_history, check_compatibility, handle_query and             *)
(* ProductSearchAgent.extract_context_from_history.                        *)
(*                                                                         *)
(* Texts are TLC strings and every pattern match is computed character by  *)
(* character, as Python's re module computes it on ASCII text.             *)
(***************************************************************************)
EXTENDS Integers, Sequences, FiniteSets, TLC

VARIABLES
    user_message,          \* the current user query (a string)
    conversation_history,  \* sequence of turns, each [role, content]
    arg_part,              \* handle_query's part_number argument (None or string)
    arg_model,             \* handle_query's model_number argument (None or string)
    op,                    \* the operation that has run on these inputs
    llm_calls,             \* completion-service calls made by that operation
    llm_response,          \* the text the completion service returned (None: not asked)
    llm_narrative,         \* its answer to a narrative request (None: not asked)
    vector_searches,       \* VectorStore.search calls made, with what they returned
    history_scans,         \* extract_from_history calls made by that operation
    db_queries,            \* part identifiers looked up in the Catalog Store
    result,                \* what the operation returned
    conversations,         \* app.py's conversations[session]: 0 (no key) or a list object
    lists,                 \* the list objects created so far, each a sequence of turns
    requests,              \* the chat and streaming requests of the session
    erased                 \* the turns that clear_conversation removed

vars == <<user_message, conversation_history, arg_part, arg_model, op,
          llm_calls, llm_response, llm_narrative, vector_searches,
          history_scans, db_queries, result,
          conversations, lists, requests, erased>>

\* Python's None.
None == "<None>"

\* No operation has run, or the call raised instead of returning.
NoResult == [kind |-> "none"]

(***************************************************************************)
(* Characters and strings                                                  *)
(***************************************************************************)

LowerLetters == "abcdefghijklmnopqrstuvwxyz"
UpperLetters == "ABCDEFGHIJKLMNOPQRSTUVWXYZ"
DigitChars == "0123456789"

\* The i-th character of s, as a one-character string.
CharAt(s, i) == SubSeq(s, i, i)

\* The set of characters of s.
CharsOf(s) == {CharAt(s, i) : i \in 1..Len(s)}

LowerSet == CharsOf(LowerLetters)
UpperSet == CharsOf(UpperLetters)
DigitSet == CharsOf(DigitChars)

\* Position of character c in s (c occurs in s).
IndexIn(s, c) == CHOOSE i \in 1..Len(s) : CharAt(s, i) = c

\* str.upper() and str.lower() on one ASCII character.
ToUpper == [c \in LowerSet |-> CharAt(UpperLetters, IndexIn(LowerLetters, c))]
ToLower == [c \in UpperSet |-> CharAt(LowerLetters, IndexIn(UpperLetters, c))]
UpperChar(c) == IF c \in LowerSet THEN ToUpper[c] ELSE c
LowerChar(c) == IF c \in UpperSet THEN ToLower[c] ELSE c

RECURSIVE Upper(_)
\* str.upper()
Upper(s) == IF s = "" THEN "" ELSE UpperChar(CharAt(s, 1)) \o Upper(Tail(s))

RECURSIVE Lower(_)
\* str.lower()
Lower(s) == IF s = "" THEN "" ELSE LowerChar(CharAt(s, 1)) \o Lower(Tail(s))

\* [A-Z] and [A-Z0-9] under re.IGNORECASE, \d, and \w (ASCII).
IsLetter(c) == c \in LowerSet \/ c \in UpperSet
IsDigit(c) == c \in DigitSet
IsAlnum(c) == IsLetter(c) \/ IsDigit(c)
IsWordChar(c) == IsAlnum(c) \/ c = "_"

\* Characters str.strip() removes.
IsSpace(c) == c \in {" ", "\n", "\t", "\r"}

\* sub in s (Python's substring test).
Contains(s, sub) ==
    \E i \in 1..(Len(s) - Len(sub) + 1) : SubSeq(s, i, i + Len(sub) - 1) = sub

\* s.startswith(prefix)
StartsWith(s, prefix) ==
    Len(s) >= Len(prefix) /\ SubSeq(s, 1, Len(prefix)) = prefix

RECURSIVE LStrip(_)
LStrip(s) == IF s # "" /\ IsSpace(CharAt(s, 1)) THEN LStrip(Tail(s)) ELSE s

RECURSIVE RStrip(_)
RStrip(s) ==
    IF s # "" /\ IsSpace(CharAt(s, Len(s))) THEN RStrip(SubSeq(s, 1, Len(s) - 1)) ELSE s

\* str.strip()
Strip(s) == RStrip(LStrip(s))

(***************************************************************************)
(* Pattern matching (Python re, ASCII text, re.IGNORECASE)                 *)
(***************************************************************************)

RECURSIVE DigitRunEnd(_, _)
\* Index of the last character of the longest run of \d starting at i (i - 1: none).
DigitRunEnd(s, i) ==
    IF i <= Len(s) /\ IsDigit(CharAt(s, i)) THEN DigitRunEnd(s, i + 1) ELSE i - 1

RECURSIVE AlnumRunEnd(_, _)
\* Index of the last character of the longest run of [A-Z0-9] starting at i.
AlnumRunEnd(s, i) ==
    IF i <= Len(s) /\ IsAlnum(CharAt(s, i)) THEN AlnumRunEnd(s, i + 1) ELSE i - 1

RECURSIVE LetterRunEnd(_, _)
\* Index of the last character of the longest run of [A-Z] starting at i.
LetterRunEnd(s, i) ==
    IF i <= Len(s) /\ IsLetter(CharAt(s, i)) THEN LetterRunEnd(s, i + 1) ELSE i - 1

\* r"PS\d+" matches at position i: P, S, then at least one digit.
PartMatchAt(s, i) ==
    /\ i + 2 <= Len(s)
    /\ UpperChar(CharAt(s, i)) = "P"
    /\ UpperChar(CharAt(s, i + 1)) = "S"
    /\ IsDigit(CharAt(s, i + 2))

\* The text r"PS\d+" matches at i: \d+ is greedy and nothing follows it.
PartMatchText(s, i) == SubSeq(s, i, DigitRunEnd(s, i + 2))

\* re.search(r"PS\d+", s, re.IGNORECASE): the leftmost match, or None.
PartSearch(s) ==
    LET starts == {i \in 1..Len(s) : PartMatchAt(s, i)}
    IN IF starts = {} THEN None
       ELSE PartMatchText(s, CHOOSE i \in starts : \A j \in starts : i <= j)

RECURSIVE PartFindAllFrom(_, _)
\* re.findall(r"PS\d+", s, re.IGNORECASE) from position i on: the
\* non-overlapping matches, left to right.
PartFindAllFrom(s, i) ==
    IF i > Len(s) THEN <<>>
    ELSE IF PartMatchAt(s, i)
         THEN <<PartMatchText(s, i)>> \o PartFindAllFrom(s, DigitRunEnd(s, i + 2) + 1)
         ELSE PartFindAllFrom(s, i + 1)

PartFindAll(s) == PartFindAllFrom(s, 1)

\* \b between positions i - 1 and i: exactly one side is a word character.
WordBoundaryBefore(s, i) ==
    LET left == i > 1 /\ i - 1 <= Len(s) /\ IsWordChar(CharAt(s, i - 1))
        right == i >= 1 /\ i <= Len(s) /\ IsWordChar(CharAt(s, i))
    IN left # right

\* Lengths the quantifiers of r"\b[A-Z]{2,4}[A-Z0-9]{5,}\b" allow.
ModelLettersMin == 2
ModelLettersMax == 4
ModelRestMin == 5

\* End index of the match of r"\b[A-Z]{2,4}[A-Z0-9]{5,}\b" starting at i, or 0.
\* With j leading letters taken, the greedy [A-Z0-9]{5,} runs to the end e of
\* the alphanumeric run; giving characters back leaves an alphanumeric on
\* both sides of the end, where \b fails, so e is the only end that can match.
ModelMatchEnd(s, i) ==
    LET e == AlnumRunEnd(s, i)
        letters == LetterRunEnd(s, i) - i + 1
        splits == {j \in ModelLettersMin..ModelLettersMax :
                      j <= letters /\ e - (i + j) + 1 >= ModelRestMin}
    IN IF WordBoundaryBefore(s, i) /\ splits # {} /\ WordBoundaryBefore(s, e + 1)
       THEN e ELSE 0

\* re.search(r"\b[A-Z]{2,4}[A-Z0-9]{5,}\b", s, re.IGNORECASE): leftmost match or None.
ModelSearch(s) ==
    LET starts == {i \in 1..Len(s) : ModelMatchEnd(s, i) # 0}
    IN IF starts = {} THEN None
       ELSE LET i0 == CHOOSE i \in starts : \A j \in starts : i <= j
            IN SubSeq(s, i0, ModelMatchEnd(s, i0))

RECURSIVE ModelFindAllFrom(_, _)
\* re.findall of the model pattern from position i on.
ModelFindAllFrom(s, i) ==
    IF i > Len(s) THEN <<>>
    ELSE LET e == ModelMatchEnd(s, i)
         IN IF e # 0
            THEN <<SubSeq(s, i, e)>> \o ModelFindAllFrom(s, e + 1)
            ELSE ModelFindAllFrom(s, i + 1)

ModelFindAll(s) == ModelFindAllFrom(s, 1)

\* Python truthiness of an Optional[str]: None and "" are falsy.
Truthy(v) == v # None /\ v # ""

\* Python's `a or b` on Optional[str].
OrElse(a, b) == IF Truthy(a) THEN a ELSE b

\* seq[-n:]
LastN(seq, n) == SubSeq(seq, IF Len(seq) > n THEN Len(seq) - n + 1 ELSE 1, Len(seq))

RECURSIVE Join(_)
\* " ".join(words)
Join(words) ==
    IF words = <<>> THEN ""
    ELSE IF Len(words) = 1 THEN words[1]
    ELSE words[1] \o " " \o Join(Tail(words))

\* All sequences over S of length at most n.
SeqsUpTo(S, n) == UNION {[1..k -> S] : k \in 0..n}

(***************************************************************************)
(* The completion service (DeepseekClient.chat_with_system)                *)
(***************************************************************************)

\* chat() re-raises requests.exceptions.RequestException.
LlmFailure == "<RequestException>"

(***************************************************************************)
(* RouterAgent.route                                                       *)
(***************************************************************************)

DurationKeywords ==
    {"how long", "how much time", "time estimate", "duration", "take to install"}

InstallKeywords == {"install", "installation", "replace", "how do i"}

valid_categories ==
    {"PRODUCT_SEARCH", "COMPATIBILITY_CHECK", "INSTALLATION_HELP",
     "TROUBLESHOOTING", "ORDER_SUPPORT", "OUT_OF_SCOPE"}

\* conversation_history[-3:] in route.
RouterWindow == 3

\* any(keyword in query_lower for keyword in keywords)
AnyKeyword(keywords, query_lower) == \E k \in keywords : Contains(query_lower, k)

\* Variant: the whole history is scanned instead of the last 3 turns.
RouterHasContext_WholeHistory(history) ==
    \E k \in 1..Len(history) : PartSearch(history[k].content) # None

\* Pre-rule 1's has_context: a part number in one of the recent messages.
RouterHasContext(history) ==
    \E k \in 1..Len(LastN(history, RouterWindow)) :
        PartSearch(LastN(history, RouterWindow)[k].content) # None

\* Pre-rule 1 returns INSTALLATION_HELP.
PreRule1(message, history) ==
    /\ AnyKeyword(DurationKeywords, Lower(message))
    /\ PartSearch(message) # None \/ RouterHasContext(history)

\* Variant: the keywords are looked up in the message as typed.
PreRule2_CaseSensitive(message) ==
    /\ AnyKeyword(InstallKeywords, message)
    /\ PartSearch(message) # None

\* Pre-rule 2 returns INSTALLATION_HELP.
PreRule2(message) ==
    /\ AnyKeyword(InstallKeywords, Lower(message))
    /\ PartSearch(message) # None

\* Variant: the cleaned-up response is returned without validation.
ValidateCategory_Unchecked(response) == Upper(Strip(response))

\* Steps 3 on: clean up and validate the classifier's response.
ValidateCategory(response) ==
    LET category == Upper(Strip(response))
    IN IF category \notin valid_categories THEN "PRODUCT_SEARCH" ELSE category

\* The pre-rule that decides route(message, history): 1 or 2, or 3 when
\* neither applies and the classifier is asked.
PreRule(message, history) ==
    IF PreRule1(message, history) THEN 1
    ELSE IF PreRule2(message) THEN 2
    ELSE 3

\* route(user_message, conversation_history) decided by `rule`, when the
\* completion service would answer `response` (or fail): the returned
\* category, whether the call raised, and the completion-service calls made.
RouteResult(rule, response) ==
    IF rule # 3
    THEN [category |-> "INSTALLATION_HELP", raised |-> FALSE, calls |-> 0]
    ELSE IF response = LlmFailure
    THEN [category |-> None, raised |-> TRUE, calls |-> 1]
    ELSE [category |-> ValidateCategory(response), raised |-> FALSE, calls |-> 1]

(***************************************************************************)
(* CompatibilityAgent: entity extraction                                   *)
(***************************************************************************)

RECURSIVE SplitLines(_)
\* s.split("\n")
SplitLines(s) ==
    LET breaks == {i \in 1..Len(s) : CharAt(s, i) = "\n"}
    IN IF breaks = {} THEN <<s>>
       ELSE LET b == CHOOSE i \in breaks : \A j \in breaks : i <= j
            IN <<SubSeq(s, 1, b - 1)>> \o SplitLines(SubSeq(s, b + 1, Len(s)))

\* line.split(":", 1)[1].strip(), for a line that contains ":".
ValueAfterColon(line) ==
    LET colons == {i \in 1..Len(line) : CharAt(line, i) = ":"}
        c == CHOOSE i \in colons : \A j \in colons : i <= j
    IN Strip(SubSeq(line, c + 1, Len(line)))

\* re.search(...).group(0).upper() if a match else None
UpperOrNone(match) == IF match = None THEN None ELSE Upper(match)

\* The pattern-matching stage of extract_part_and_model.
RegexPart(user_query) == UpperOrNone(PartSearch(user_query))
RegexModel(user_query) == UpperOrNone(ModelSearch(user_query))

\* extract_part_and_model returns after pattern matching, without fallback.
RegexFoundBoth(user_query) ==
    Truthy(RegexPart(user_query)) /\ Truthy(RegexModel(user_query))

RECURSIVE ParseFallback_Overwrite(_, _, _)
\* Variant: a fallback value replaces the value already held.
ParseFallback_Overwrite(lines, extracted_part, extracted_model) ==
    IF lines = <<>>
    THEN [part_number |-> extracted_part, model_number |-> extracted_model]
    ELSE LET line == Head(lines)
         IN IF StartsWith(line, "PART_NUMBER:")
            THEN ParseFallback_Overwrite(Tail(lines),
                    IF ValueAfterColon(line) # "NONE"
                    THEN ValueAfterColon(line) ELSE extracted_part,
                    extracted_model)
            ELSE IF StartsWith(line, "MODEL_NUMBER:")
            THEN ParseFallback_Overwrite(Tail(lines), extracted_part,
                    IF ValueAfterColon(line) # "NONE"
                    THEN ValueAfterColon(line) ELSE extracted_model)
            ELSE ParseFallback_Overwrite(Tail(lines), extracted_part, extracted_model)

RECURSIVE ParseFallback(_, _, _)
\* The loop over the fallback response's lines: a value other than NONE
\* fills extracted_part / extracted_model only while that one is falsy.
ParseFallback(lines, extracted_part, extracted_model) ==
    IF lines = <<>>
    THEN [part_number |-> extracted_part, model_number |-> extracted_model]
    ELSE LET line == Head(lines)
         IN IF StartsWith(line, "PART_NUMBER:")
            THEN ParseFallback(Tail(lines),
                    IF ValueAfterColon(line) # "NONE" /\ ~Truthy(extracted_part)
                    THEN ValueAfterColon(line) ELSE extracted_part,
                    extracted_model)
            ELSE IF StartsWith(line, "MODEL_NUMBER:")
            THEN ParseFallback(Tail(lines), extracted_part,
                    IF ValueAfterColon(line) # "NONE" /\ ~Truthy(extracted_model)
                    THEN ValueAfterColon(line) ELSE extracted_model)
            ELSE ParseFallback(Tail(lines), extracted_part, extracted_model)

\* extract_part_and_model(user_query) when the completion service would
\* answer `response` (or fail): the returned dict, whether the call raised,
\* and the completion-service calls made.
ExtractPartAndModelResult(user_query, response) ==
    LET part_number == RegexPart(user_query)
        model_number == RegexModel(user_query)
    IN IF Truthy(part_number) /\ Truthy(model_number)
       THEN [part_number |-> part_number, model_number |-> model_number,
             raised |-> FALSE, calls |-> 0]
       ELSE IF response = LlmFailure
       THEN [part_number |-> None, model_number |-> None,
             raised |-> TRUE, calls |-> 1]
       ELSE LET parsed == ParseFallback(SplitLines(Strip(response)),
                                        part_number, model_number)
            IN [part_number |-> parsed.part_number,
                model_number |-> parsed.model_number,
                raised |-> FALSE, calls |-> 1]

\* conversation_history[-4:] in extract_from_history and
\* extract_context_from_history.
HistoryWindow == 4

\* The exclusion of extract_from_history: not potential_model.startswith("PS").
ModelCandidate(content) ==
    LET potential_model == UpperOrNone(ModelSearch(content))
    IN IF potential_model # None /\ ~StartsWith(potential_model, "PS")
       THEN potential_model ELSE None

RECURSIVE ScanHistory_LatestWins(_, _)
\* Variant: a later turn's match replaces an earlier one.
ScanHistory_LatestWins(recent_messages, context) ==
    IF recent_messages = <<>> THEN context
    ELSE LET content == Head(recent_messages).content
             part == UpperOrNone(PartSearch(content))
             model == ModelCandidate(content)
         IN ScanHistory_LatestWins(Tail(recent_messages),
               [part_number |-> IF part # None THEN part ELSE context.part_number,
                model_number |-> IF model # None THEN model ELSE context.model_number])

RECURSIVE ScanHistory(_, _)
\* The loop of extract_from_history over recent_messages, in order: each
\* field is set from the first turn that yields it.
ScanHistory(recent_messages, context) ==
    IF recent_messages = <<>> THEN context
    ELSE LET content == Head(recent_messages).content
         IN ScanHistory(Tail(recent_messages),
               [part_number |->
                    IF ~Truthy(context.part_number) /\ PartSearch(content) # None
                    THEN Upper(PartSearch(content)) ELSE context.part_number,
                model_number |->
                    IF ~Truthy(context.model_number) /\ ModelCandidate(content) # None
                    THEN ModelCandidate(content) ELSE context.model_number])

\* CompatibilityAgent.extract_from_history(conversation_history)
ExtractFromHistory(history) ==
    ScanHistory(LastN(history, HistoryWindow),
                [part_number |-> None, model_number |-> None])

(***************************************************************************)
(* ProductSearchAgent.extract_context_from_history (identifiers)           *)
(***************************************************************************)

\* matches[-1].upper() if matches else None
LastUpperOrNone(matches) ==
    IF matches = <<>> THEN None ELSE Upper(matches[Len(matches)])

RECURSIVE ScanContext(_, _)
\* The loop of extract_context_from_history over recent_messages: the
\* part_number and model_number entries of the context.
ScanContext(recent_messages, context) ==
    IF recent_messages = <<>> THEN context
    ELSE LET content == Head(recent_messages).content
             part_matches == PartFindAll(content)
             model_matches == ModelFindAll(content)
         IN ScanContext(Tail(recent_messages),
               [part_number |->
                    IF part_matches # <<>> /\ ~Truthy(context.part_number)
                    THEN LastUpperOrNone(part_matches) ELSE context.part_number,
                model_number |->
                    IF model_matches # <<>> /\ ~Truthy(context.model_number)
                    THEN LastUpperOrNone(model_matches) ELSE context.model_number])

\* ProductSearchAgent.extract_context_from_history, identifiers only.
ExtractContextFromHistory(history) ==
    ScanContext(LastN(history, HistoryWindow),
                [part_number |-> None, model_number |-> None])

(***************************************************************************)
(* The Catalog Store and CompatibilityAgent.check_compatibility            *)
(***************************************************************************)

\* A key the returned dict does not have.
Absent == "<absent>"

\* Python's True and False as dict values.
PyTrue == "True"
PyFalse == "False"

\* The part_number of every row of the parts table.
PartNumbers == {"PS11752778", "PS100", "PS200", "PS300", "PS400"}

\* The parts table: part_number -> model_number of each compatible model,
\* in the order part.compatible_models lists them.
Catalog ==
    [p \in PartNumbers |->
        CASE p = "PS11752778" -> <<"WDT780SAEM1", "WDT780PAEM1">>
          [] p = "PS100" -> <<"MODEL00A", "MODEL00B", "MODEL00C", "MODEL00D",
                              "MODEL00E", "MODEL00F">>
          [] p = "PS200" -> <<"kdfe104hps">>
          [] OTHER -> <<>>]

\* compatible_model_numbers[:5]
SuggestionLimit == 5

\* db.query(Part).filter(Part.part_number == part_number).first() found a row.
PartExists(part_number) == part_number \in DOMAIN Catalog

\* Variant: a part that is not found is reported as not compatible.
CheckCompatibility_NotFoundAsFalse(part_number, model_number) ==
    [compatible |-> PyFalse, error |-> Absent, part |-> Absent,
     compatible_models |-> <<>>]

\* Variant: the model number is compared as typed.
CheckCompatibility_CaseSensitive(part_number, model_number) ==
    IF ~PartExists(part_number)
    THEN [compatible |-> None, error |-> "PART_NOT_FOUND", part |-> Absent,
          compatible_models |-> Absent]
    ELSE IF \E k \in 1..Len(Catalog[part_number]) :
                model_number = Catalog[part_number][k]
    THEN [compatible |-> PyTrue, error |-> Absent, part |-> part_number,
          compatible_models |-> Absent]
    ELSE [compatible |-> PyFalse, error |-> Absent, part |-> part_number,
          compatible_models |->
              SubSeq(Catalog[part_number], 1,
                     IF Len(Catalog[part_number]) < SuggestionLimit
                     THEN Len(Catalog[part_number]) ELSE SuggestionLimit)]

\* Variant: the first compatible models accompany a positive answer too.
CheckCompatibility_SuggestAlways(part_number, model_number) ==
    IF ~PartExists(part_number)
    THEN [compatible |-> None, error |-> "PART_NOT_FOUND", part |-> Absent,
          compatible_models |-> Absent]
    ELSE [compatible |->
              IF \E k \in 1..Len(Catalog[part_number]) :
                     Upper(model_number) = Upper(Catalog[part_number][k])
              THEN PyTrue ELSE PyFalse,
          error |-> Absent, part |-> part_number,
          compatible_models |->
              SubSeq(Catalog[part_number], 1,
                     IF Len(Catalog[part_number]) < SuggestionLimit
                     THEN Len(Catalog[part_number]) ELSE SuggestionLimit)]

\* check_compatibility(part_number, model_number): the returned dict.
CheckCompatibility(part_number, model_number) ==
    IF ~PartExists(part_number)
    THEN [compatible |-> None, error |-> "PART_NOT_FOUND", part |-> Absent,
          compatible_models |-> Absent]
    ELSE LET compatible_model_numbers == Catalog[part_number]
             is_compatible ==
                 \E k \in 1..Len(compatible_model_numbers) :
                     Upper(model_number) = Upper(compatible_model_numbers[k])
         IN IF is_compatible
            THEN [compatible |-> PyTrue, error |-> Absent, part |-> part_number,
                  compatible_models |-> Absent]
            ELSE [compatible |-> PyFalse, error |-> Absent, part |-> part_number,
                  compatible_models |->
                      SubSeq(compatible_model_numbers, 1,
                             IF Len(compatible_model_numbers) < SuggestionLimit
                             THEN Len(compatible_model_numbers)
                             ELSE SuggestionLimit)]

(***************************************************************************)
(* CompatibilityAgent.handle_query                                         *)
(***************************************************************************)

\* Step 1 of handle_query: current-message extraction runs when an argument
\* is missing.
NeedsExtraction(part_number, model_number) ==
    ~Truthy(part_number) \/ ~Truthy(model_number)

\* Step 2 of handle_query: the history scan runs when an entity is still
\* missing and the history is not empty.
NeedsHistory(part_number, model_number, history) ==
    (~Truthy(part_number) \/ ~Truthy(model_number)) /\ history # <<>>

\* Variant: a value found in the history replaces the one already held.
Resolve_HistoryFirst(held, found) == OrElse(found, held)

\* part_number = part_number or extracted["part_number"], and likewise for
\* the model number and for the history context.
Resolve(held, found) == OrElse(held, found)

\* Variant: the codes for a missing part and a missing model are exchanged.
MissingError_Swapped(part_number, model_number) ==
    IF ~Truthy(part_number) /\ ~Truthy(model_number) THEN "MISSING_BOTH"
    ELSE IF ~Truthy(part_number) THEN "MISSING_MODEL_NUMBER"
    ELSE IF ~Truthy(model_number) THEN "MISSING_PART_NUMBER"
    ELSE Absent

\* The error code of the three missing-entity returns of handle_query
\* (Absent: both entities are resolved).
MissingError(part_number, model_number) ==
    IF ~Truthy(part_number) /\ ~Truthy(model_number) THEN "MISSING_BOTH"
    ELSE IF ~Truthy(part_number) THEN "MISSING_PART_NUMBER"
    ELSE IF ~Truthy(model_number) THEN "MISSING_MODEL_NUMBER"
    ELSE Absent

\* The returned dict of a missing-entity return: only the entity that was
\* found is carried.  Response texts are cut to their first sentence.
MissingReturn(part_number, model_number) ==
    LET error == MissingError(part_number, model_number)
    IN [response |->
            IF error = "MISSING_BOTH"
            THEN "I need both a **part number** and a **model number**"
            ELSE IF error = "MISSING_PART_NUMBER"
            THEN "I found your model number **" \o model_number \o
                 "**, but I need a **part number** too."
            ELSE "I found part number **" \o part_number \o
                 "**, but I need your **model number** too.",
        agent |-> "compatibility",
        compatible |-> None,
        part_number |-> IF error = "MISSING_MODEL_NUMBER" THEN part_number ELSE Absent,
        model_number |-> IF error = "MISSING_PART_NUMBER" THEN model_number ELSE Absent,
        part |-> Absent,
        error |-> error]

\* The returned dict once check_compatibility has answered `check`.
CheckedReturn(part_number, model_number, check) ==
    IF check.error = "PART_NOT_FOUND"
    THEN [response |->
              "I couldn't find part number **" \o part_number \o "** in our catalog.",
          agent |-> "compatibility",
          compatible |-> None,
          part_number |-> part_number,
          model_number |-> model_number,
          part |-> Absent,
          error |-> "PART_NOT_FOUND"]
    ELSE [response |->
              IF check.compatible = PyTrue
              THEN "Great news! Yes! part #" \o part_number \o
                   " is compatible with model " \o model_number \o "."
              ELSE "part #" \o part_number \o
                   " is not listed as compatible with model " \o model_number \o ".",
          agent |-> "compatibility",
          compatible |-> check.compatible,
          part_number |-> part_number,
          model_number |-> model_number,
          part |-> check.part,
          error |-> Absent]

\* check_compatibility was not called.
Unchecked ==
    [compatible |-> Absent, error |-> Absent, part |-> Absent,
     compatible_models |-> Absent]

\* Nothing extracted: the value of a stage that did not run.
NothingFound == [part_number |-> None, model_number |-> None]

\* handle_query from "Error 1" on (lines 237-314), with both entities as
\* resolved: a missing-entity return, or check_compatibility and its return.
HandleResolved(locals, part_number, model_number) ==
    IF MissingError(part_number, model_number) # Absent
    THEN [locals EXCEPT !.part_number = part_number,
                        !.model_number = model_number,
                        !.returned = MissingReturn(part_number, model_number)]
    ELSE [locals EXCEPT !.part_number = part_number,
                        !.model_number = model_number,
                        !.queries = <<part_number>>,
                        !.check = CheckCompatibility(part_number, model_number),
                        !.returned =
                            CheckedReturn(part_number, model_number,
                                CheckCompatibility(part_number, model_number))]

\* handle_query's history step (lines 226-235), entered with the entities as
\* held after current-message extraction.
HandleHistoryStep(locals, part_number, model_number, history) ==
    IF NeedsHistory(part_number, model_number, history)
    THEN HandleResolved(
            [locals EXCEPT !.scans = TRUE, !.context = ExtractFromHistory(history)],
            Resolve(part_number, ExtractFromHistory(history).part_number),
            Resolve(model_number, ExtractFromHistory(history).model_number))
    ELSE HandleResolved(locals, part_number, model_number)

\* handle_query's current-message step (lines 220-224), `extracted` being
\* what extract_part_and_model returned or raised.
HandleExtractionStep(locals, part_arg, model_arg, history, extracted) ==
    IF extracted.raised
    THEN [locals EXCEPT !.raised = TRUE, !.calls = extracted.calls,
                        !.extracts = TRUE]
    ELSE HandleHistoryStep(
            [locals EXCEPT !.calls = extracted.calls, !.extracts = TRUE,
                           !.extracted = [part_number |-> extracted.part_number,
                                          model_number |-> extracted.model_number]],
            Resolve(part_arg, extracted.part_number),
            Resolve(model_arg, extracted.model_number),
            history)

\* handle_query(user_query, part_number, model_number, conversation_history)
\* when the completion service would answer `response` (or fail) to the
\* extraction fallback: the locals of the call and what it returns.
HandleQueryResult(user_query, part_arg, model_arg, history, response) ==
    LET locals == [raised |-> FALSE, calls |-> 0, extracts |-> FALSE,
                   extracted |-> NothingFound, scans |-> FALSE,
                   context |-> NothingFound,
                   part_number |-> part_arg, model_number |-> model_arg,
                   queries |-> <<>>, check |-> Unchecked, returned |-> NoResult]
    IN IF NeedsExtraction(part_arg, model_arg)
       THEN HandleExtractionStep(locals, part_arg, model_arg, history,
                ExtractPartAndModelResult(user_query, response))
       ELSE HandleHistoryStep(locals, part_arg, model_arg, history)

(***************************************************************************)
(* More columns of the parts table, and the vector store                   *)
(***************************************************************************)

\* A list-valued key the returned dict does not have, and a JSON column
\* that is NULL: kept apart from every list of strings the program builds.
AbsentList == <<"<absent>">>
NullList == <<"<None>">>

\* seq[:n]
FirstN(seq, n) == SubSeq(seq, 1, IF Len(seq) < n THEN Len(seq) ELSE n)

\* The rows of the parts table in the order db.query(Part).all() lists them.
PartOrder == <<"PS11752778", "PS100", "PS200", "PS300", "PS400">>

\* Part.name
PartName ==
    [p \in PartNumbers |->
        CASE p = "PS11752778" -> "Spray Arm"
          [] p = "PS100" -> "Ice Maker Assembly"
          [] p = "PS200" -> "Drain Pump"
          [] p = "PS300" -> "Ice Maker Kit"
          [] OTHER -> "Door Gasket"]

\* Part.category
PartCategory ==
    [p \in PartNumbers |->
        IF p \in {"PS11752778", "PS200", "PS400"} THEN "Dishwasher"
        ELSE "Refrigerator"]

\* Part.subcategory (nullable)
PartSubcategory ==
    [p \in PartNumbers |->
        CASE p = "PS11752778" -> "Spray Arm"
          [] p = "PS100" -> "Ice Maker"
          [] p = "PS200" -> "Pump"
          [] p = "PS300" -> "Ice Maker"
          [] OTHER -> None]

\* Part.installation_difficulty (nullable, free text)
installation_difficulty ==
    [p \in PartNumbers |->
        CASE p = "PS11752778" -> "Easy"
          [] p = "PS100" -> "Moderate"
          [] p = "PS200" -> "Difficult"
          [] p = "PS300" -> None
          [] OTHER -> "Hard"]

\* Part.installation_steps (a JSON list, nullable)
installation_steps ==
    [p \in PartNumbers |->
        CASE p = "PS11752778" -> <<"Disconnect power", "Swap the spray arm">>
          [] p = "PS100" -> <<"Turn off the water">>
          [] p = "PS200" -> <<>>
          [] p = "PS300" -> NullList
          [] OTHER -> <<"Unplug the dishwasher">>]

\* The metadata stored with a document of the collection.
Metadata(part_number, category) ==
    [part_number |-> part_number, category |-> category]

\* A vector store whose collection ranks its documents, for the query at
\* hand, in the given order.  status "error": collection.query raises;
\* status "none": the agent could not build its VectorStore.
StoreRanking(ranking) == [status |-> "ok", ranking |-> ranking]
StoreError == [status |-> "error", ranking |-> <<>>]
StoreNone == [status |-> "none", ranking |-> <<>>]

\* VectorStore.search(query, n_results, category_filter): results["metadatas"][0].
VectorSearch(store, n_results, category_filter) ==
    IF store.status # "ok" \/ store.ranking = <<>> THEN <<>>
    ELSE LET count == Len(store.ranking)
             matching ==
                 IF Truthy(category_filter)
                 THEN SelectSeq(store.ranking,
                                LAMBDA d : d.category = category_filter)
                 ELSE store.ranking
         IN FirstN(matching, IF n_results < count THEN n_results ELSE count)

\* One entry of the log of search calls.
SearchCall(store, query, n_results, category_filter) ==
    [query |-> query, n_results |-> n_results,
     category_filter |-> category_filter,
     metadatas |-> VectorSearch(store, n_results, category_filter)]

\* The loop over results["metadatas"][0]: the part of each hit that the
\* parts table still has, in order.
PartRows(metadatas) ==
    LET found == SelectSeq(metadatas, LAMBDA d : PartExists(d.part_number))
    IN [k \in 1..Len(found) |-> found[k].part_number]

\* The part numbers the loop over results["metadatas"][0] looks up.
HitNumbers(calls) ==
    IF calls = <<>> THEN <<>>
    ELSE [k \in 1..Len(calls[1].metadatas) |-> calls[1].metadatas[k].part_number]

(***************************************************************************)
(* InstallationAgent                                                       *)
(***************************************************************************)

\* The keywords of handle_query's time-estimate test.
TimeEstimateKeywords ==
    {"how long", "how much time", "time estimate", "duration", "take to install"}

IsTimeEstimateQuery(user_query) ==
    AnyKeyword(TimeEstimateKeywords, Lower(user_query))

\* The category detection of find_relevant_parts and of handle_query's
\* not-found branch.
InstallCategory(user_query) ==
    IF AnyKeyword({"dishwasher", "dish washer"}, Lower(user_query))
    THEN "Dishwasher"
    ELSE IF AnyKeyword({"refrigerator", "fridge", "freezer"}, Lower(user_query))
    THEN "Refrigerator"
    ELSE None

\* The search calls find_relevant_parts(user_query, n_results) makes.
FindRelevantPartsCalls(store, user_query, n_results) ==
    IF store.status = "none" THEN <<>>
    ELSE <<SearchCall(store, user_query, n_results, InstallCategory(user_query))>>

\* Variant: every hit of the collection is returned.
FindRelevantParts_Unbounded(store, user_query, n_results) ==
    PartRows(store.ranking)

\* find_relevant_parts(user_query, n_results): the parts found.
FindRelevantParts(store, user_query, n_results) ==
    IF store.status = "none" THEN <<>>
    ELSE PartRows(VectorSearch(store, n_results, InstallCategory(user_query)))

\* get_installation_instructions(part_number); found = FALSE stands for None.
GetInstallationInstructions(part_number) ==
    IF ~PartExists(part_number)
    THEN [found |-> FALSE, part |-> Absent, steps |-> <<>>, difficulty |-> Absent]
    ELSE [found |-> TRUE,
          part |-> part_number,
          steps |-> IF installation_steps[part_number] = NullList THEN <<>>
                    ELSE installation_steps[part_number],
          difficulty |-> OrElse(installation_difficulty[part_number], "Unknown")]

\* extract_part_number(user_query) when the completion service would answer
\* `response` (or fail).
ExtractPartNumberResult(user_query, response) ==
    IF PartSearch(user_query) # None
    THEN [part_number |-> Upper(PartSearch(user_query)), raised |-> FALSE,
          calls |-> 0]
    ELSE IF response = LlmFailure
    THEN [part_number |-> None, raised |-> TRUE, calls |-> 1]
    ELSE [part_number |-> IF Strip(response) = "NONE" THEN None
                          ELSE Strip(response),
          raised |-> FALSE, calls |-> 1]

RECURSIVE ScanReversed_Forward(_)
\* Variant: the loop runs over recent_messages in chronological order.
ScanReversed_Forward(recent_messages) ==
    IF recent_messages = <<>> THEN None
    ELSE LET content == recent_messages[1].content
         IN IF PartSearch(content) # None THEN Upper(PartSearch(content))
            ELSE ScanReversed_Forward(Tail(recent_messages))

RECURSIVE ScanReversed(_)
\* The loop of extract_part_from_history over reversed(recent_messages).
ScanReversed(recent_messages) ==
    IF recent_messages = <<>> THEN None
    ELSE LET content == recent_messages[Len(recent_messages)].content
         IN IF PartSearch(content) # None THEN Upper(PartSearch(content))
            ELSE ScanReversed(SubSeq(recent_messages, 1, Len(recent_messages) - 1))

\* InstallationAgent.extract_part_from_history(conversation_history)
ExtractPartFromHistory(history) == ScanReversed(LastN(history, HistoryWindow))

\* Variant: an unlisted difficulty is estimated like a Moderate one.
EstimatedTime_UnknownAsModerate(difficulty) ==
    CASE difficulty = "Easy" -> "10-20 minutes"
      [] difficulty = "Difficult" -> "1-2 hours"
      [] OTHER -> "30-60 minutes"

\* time_estimates.get(difficulty, "30-45 minutes")
EstimatedTime(difficulty) ==
    CASE difficulty = "Easy" -> "10-20 minutes"
      [] difficulty = "Moderate" -> "30-60 minutes"
      [] difficulty = "Difficult" -> "1-2 hours"
      [] OTHER -> "30-45 minutes"

\* The keys an installation result may have, all absent.
InstallationReturn ==
    [response |-> "", agent |-> "installation", error |-> Absent,
     part |-> Absent, part_number |-> Absent, suggested_parts |-> AbsentList,
     steps |-> AbsentList, difficulty |-> Absent, estimated_time |-> Absent,
     no_suggestions |-> Absent]

\* Variant: the clarification of the time-estimate flow reuses a code of
\* the Compatibility handler.
NoPartForTimeEstimate_MissingCode ==
    [InstallationReturn EXCEPT
        !.response = "I'd be happy to give you a time estimate! Which part are you asking about?",
        !.error = "MISSING_PART_NUMBER"]

\* handle_time_estimate_query without a part number (lines 144-154).
NoPartForTimeEstimate ==
    [InstallationReturn EXCEPT
        !.response = "I'd be happy to give you a time estimate! Which part are you asking about?",
        !.error = "NO_PART_NUMBER_FOR_TIME_ESTIMATE"]

\* handle_time_estimate_query(user_query, part_number, conversation_history):
\* the returned dict.  Response texts are cut to the sentence that carries
\* the identifier or the estimate.
HandleTimeEstimateQuery(part_number) ==
    IF ~Truthy(part_number) THEN NoPartForTimeEstimate
    ELSE IF ~GetInstallationInstructions(part_number).found
    THEN [InstallationReturn EXCEPT
             !.response = "I couldn't find part number **" \o part_number \o
                          "** to provide a time estimate.",
             !.error = "PART_NOT_FOUND"]
    ELSE [InstallationReturn EXCEPT
             !.response =
                 "**Estimated Time:** " \o
                 EstimatedTime(GetInstallationInstructions(part_number).difficulty),
             !.part = part_number,
             !.difficulty = GetInstallationInstructions(part_number).difficulty,
             !.estimated_time =
                 EstimatedTime(GetInstallationInstructions(part_number).difficulty)]

\* Variant: the request for a part number has no text.
NoPartNumberReturn_NoText(relevant_parts) ==
    [InstallationReturn EXCEPT
        !.suggested_parts = IF relevant_parts # <<>> THEN relevant_parts
                            ELSE AbsentList,
        !.error = "NO_PART_NUMBER"]

\* "Error 1" of handle_query (lines 303-332), relevant_parts being what
\* find_relevant_parts returned.
NoPartNumberReturn(relevant_parts) ==
    IF relevant_parts # <<>>
    THEN [InstallationReturn EXCEPT
             !.response = "I'd be happy to help with installation! I need the specific **part number** to provide detailed instructions.",
             !.suggested_parts = relevant_parts,
             !.error = "NO_PART_NUMBER"]
    ELSE [InstallationReturn EXCEPT
             !.response = "I'd be happy to help with installation! Could you provide the **part number**?",
             !.error = "NO_PART_NUMBER"]

RECURSIVE Remove(_, _)
\* s.replace(old, "") for a non-empty old.
Remove(s, old) ==
    IF Len(s) < Len(old) THEN s
    ELSE IF StartsWith(s, old) THEN Remove(SubSeq(s, Len(old) + 1, Len(s)), old)
    ELSE SubSeq(s, 1, 1) \o Remove(Tail(s), old)

\* The search_query of "Error 2" (lines 348-354).
SimilarSearchQuery(user_query, part_number) ==
    LET stripped == Strip(Remove(user_query, part_number))
        search_query == IF stripped = "" THEN "part " \o part_number ELSE stripped
    IN IF InstallCategory(user_query) # None
       THEN InstallCategory(user_query) \o " " \o search_query
       ELSE search_query

\* The similar_parts of "Error 2" (lines 356-362): the parts found, kept
\* when of the detected category.
SimilarParts(store, user_query, part_number) ==
    LET found == FindRelevantParts(store, SimilarSearchQuery(user_query, part_number), 3)
    IN IF InstallCategory(user_query) # None
       THEN FirstN(SelectSeq(found,
                     LAMBDA p : PartCategory[p] = InstallCategory(user_query)), 3)
       ELSE found

\* "Error 2" of handle_query (lines 364-389).
PartNotFoundReturn(part_number, similar_parts) ==
    [InstallationReturn EXCEPT
        !.response = "I couldn't find part number **" \o part_number \o
                     "** in our catalog.",
        !.part_number = part_number,
        !.suggested_parts = similar_parts,
        !.error = "PART_NOT_FOUND"]

\* Variant: a part without steps is reported as not found.
NoInstallationStepsReturn_AsNotFound(part_number, instructions) ==
    [InstallationReturn EXCEPT
        !.response = "I couldn't find part number **" \o part_number \o
                     "** in our catalog.",
        !.part_number = part_number,
        !.error = "PART_NOT_FOUND"]

\* "Error 3" of handle_query (lines 392-409).
NoInstallationStepsReturn(part_number, instructions) ==
    [InstallationReturn EXCEPT
        !.response = "I found **" \o PartName[part_number] \o "** (Part #" \o
                     part_number \o
                     "), but detailed installation instructions are not currently available for this part.",
        !.part = instructions.part,
        !.part_number = part_number,
        !.error = "NO_INSTALLATION_STEPS"]

\* The success return of handle_query (lines 412-450): the narrative of the
\* completion service, or the template when the service fails.
InstructionsReturn(part_number, instructions, narrative) ==
    IF narrative # LlmFailure
    THEN [InstallationReturn EXCEPT
             !.response = narrative,
             !.part = instructions.part,
             !.steps = instructions.steps,
             !.difficulty = instructions.difficulty,
             !.no_suggestions = PyTrue]
    ELSE [InstallationReturn EXCEPT
             !.response = "**Part Number:** " \o part_number \o
                          "\n**Difficulty:** " \o instructions.difficulty,
             !.part = instructions.part,
             !.steps = instructions.steps,
             !.difficulty = instructions.difficulty]

\* handle_query up to the time-estimate test (lines 275-281), when the
\* completion service would answer `response` to extract_part_number: the
\* part number held, and the calls made.
InstallResolved(user_query, part_arg, history, response) ==
    LET extracted ==
            IF Truthy(part_arg)
            THEN [part_number |-> part_arg, raised |-> FALSE, calls |-> 0]
            ELSE ExtractPartNumberResult(user_query, response)
        scans == ~extracted.raised /\ ~Truthy(extracted.part_number)
                 /\ history # <<>>
    IN [raised |-> extracted.raised,
        calls |-> extracted.calls,
        extracts |-> ~Truthy(part_arg),
        scans |-> scans,
        part_number |-> IF scans THEN ExtractPartFromHistory(history)
                        ELSE extracted.part_number]

\* handle_query finds no part and is not asked for a time estimate: it
\* calls find_relevant_parts.
InstallSearches(user_query, resolved) ==
    /\ ~resolved.raised
    /\ ~IsTimeEstimateQuery(user_query)
    /\ \/ ~Truthy(resolved.part_number)
       \/ ~PartExists(resolved.part_number)

\* handle_query reaches generate_response.
InstallNarrates(user_query, resolved) ==
    /\ ~resolved.raised
    /\ ~IsTimeEstimateQuery(user_query)
    /\ Truthy(resolved.part_number)
    /\ PartExists(resolved.part_number)
    /\ GetInstallationInstructions(resolved.part_number).steps # <<>>

\* handle_query from the time-estimate test on (lines 283-450): the dict
\* returned, with the calls made on the way.
InstallDispatch(user_query, part_number, store, narrative) ==
    IF IsTimeEstimateQuery(user_query)
    THEN [returned |-> HandleTimeEstimateQuery(part_number),
          finds |-> 0, searches |-> <<>>,
          queries |-> IF Truthy(part_number) THEN <<part_number>> ELSE <<>>,
          narrates |-> FALSE]
    ELSE IF ~Truthy(part_number)
    THEN [returned |-> NoPartNumberReturn(FindRelevantParts(store, user_query, 3)),
          finds |-> 1,
          searches |-> FindRelevantPartsCalls(store, user_query, 3),
          queries |-> HitNumbers(FindRelevantPartsCalls(store, user_query, 3)),
          narrates |-> FALSE]
    ELSE IF ~PartExists(part_number)
    THEN [returned |->
              PartNotFoundReturn(part_number,
                                 SimilarParts(store, user_query, part_number)),
          finds |-> 1,
          searches |->
              FindRelevantPartsCalls(
                  store, SimilarSearchQuery(user_query, part_number), 3),
          queries |->
              <<part_number>> \o
              HitNumbers(FindRelevantPartsCalls(
                  store, SimilarSearchQuery(user_query, part_number), 3)),
          narrates |-> FALSE]
    ELSE IF GetInstallationInstructions(part_number).steps = <<>>
    THEN [returned |->
              NoInstallationStepsReturn(part_number,
                                        GetInstallationInstructions(part_number)),
          finds |-> 0, searches |-> <<>>, queries |-> <<part_number>>,
          narrates |-> FALSE]
    ELSE [returned |->
              InstructionsReturn(part_number,
                                 GetInstallationInstructions(part_number),
                                 narrative),
          finds |-> 0, searches |-> <<>>, queries |-> <<part_number>>,
          narrates |-> TRUE]

(***************************************************************************)
(* TroubleshootingAgent                                                    *)
(***************************************************************************)

RECURSIVE ScanApplianceType(_, _)
\* The loop of TroubleshootingAgent.extract_context_from_history over
\* recent_messages: the appliance_type entry, set anew by every turn that
\* names an appliance.
ScanApplianceType(recent_messages, appliance_type) ==
    IF recent_messages = <<>> THEN appliance_type
    ELSE ScanApplianceType(Tail(recent_messages),
            IF \/ Contains(Lower(Head(recent_messages).content), "refrigerator")
               \/ Contains(Lower(Head(recent_messages).content), "fridge")
            THEN "Refrigerator"
            ELSE IF Contains(Lower(Head(recent_messages).content), "dishwasher")
            THEN "Dishwasher"
            ELSE appliance_type)

\* context.get("appliance_type") in TroubleshootingAgent.handle_query.
ApplianceTypeFromHistory(history) ==
    ScanApplianceType(LastN(history, HistoryWindow), None)

\* diagnose_problem(user_query, appliance_type): its one search call.
DiagnoseProblemCalls(store, user_query, appliance_type) ==
    <<SearchCall(store, user_query, 5, appliance_type)>>

\* diagnose_problem(user_query, appliance_type): the parts found.
DiagnoseProblem(store, user_query, appliance_type) ==
    PartRows(VectorSearch(store, 5, appliance_type))

\* The text generate_response returns when there is no part.
ClarificationText ==
    "I understand you're having an issue. Could you provide more details about what's happening with your appliance?"

\* Variant: every part found is suggested.
SuggestedParts_All(parts) == parts

\* parts[:3] in TroubleshootingAgent.handle_query's return.
SuggestedParts(parts) == FirstN(parts, 3)

\* TroubleshootingAgent.handle_query(user_query, conversation_history) when
\* the completion service would answer `narrative` (or fail).
TroubleshootingResult(user_query, history, store, narrative) ==
    LET appliance_type == ApplianceTypeFromHistory(history)
        parts == DiagnoseProblem(store, user_query, appliance_type)
    IN [raised |-> parts # <<>> /\ narrative = LlmFailure,
        calls |-> IF parts # <<>> THEN 1 ELSE 0,
        searches |-> DiagnoseProblemCalls(store, user_query, appliance_type),
        category |-> appliance_type,
        returned |->
            IF parts # <<>> /\ narrative = LlmFailure THEN NoResult
            ELSE [response |-> IF parts = <<>> THEN ClarificationText
                               ELSE narrative,
                  suggested_parts |-> SuggestedParts(parts),
                  agent |-> "troubleshooting",
                  error |-> Absent]]

(***************************************************************************)
(* ProductSearchAgent                                                      *)
(***************************************************************************)

\* extract_category_from_query(query)
ExtractCategoryFromQuery(query) ==
    IF AnyKeyword({"dishwasher", "dish washer", "dish-washer"}, Lower(query))
    THEN "Dishwasher"
    ELSE IF AnyKeyword({"refrigerator", "fridge", "freezer", "ice maker"},
                       Lower(query))
    THEN "Refrigerator"
    ELSE None

\* is_meta_query(query)
IsMetaQuery(query) ==
    AnyKeyword({"what types", "what kind", "what categories", "all types",
                "all parts", "list all", "show all", "available types",
                "types available", "what do you have", "what's available",
                "what is available"}, Lower(query))

\* is_similar_query in handle_query.
IsSimilarQuery(user_query) ==
    AnyKeyword({"similar", "alternative", "other", "different", "like this"},
               Lower(user_query))

part_keywords ==
    {"ice maker", "water inlet valve", "spray arm", "pump", "motor", "filter",
     "gasket", "seal", "door", "handle", "shelf", "drawer", "light",
     "thermostat", "compressor"}

RECURSIVE ScanCategory(_, _)
\* The loop of ProductSearchAgent.extract_context_from_history over
\* recent_messages: the category entry, set by the first turn that names one.
ScanCategory(recent_messages, category) ==
    IF recent_messages = <<>> THEN category
    ELSE ScanCategory(Tail(recent_messages),
            IF Contains(Lower(Head(recent_messages).content), "refrigerator")
               /\ ~Truthy(category)
            THEN "Refrigerator"
            ELSE IF Contains(Lower(Head(recent_messages).content), "dishwasher")
                    /\ ~Truthy(category)
            THEN "Dishwasher"
            ELSE category)

\* context["category"]
CategoryFromHistory(history) == ScanCategory(LastN(history, HistoryWindow), None)

\* context["keywords"] after list(set(...)): the keywords found, in no
\* particular order.
KeywordsFromHistory(history) ==
    {k \in part_keywords :
        \E i \in 1..Len(LastN(history, HistoryWindow)) :
            Contains(Lower(LastN(history, HistoryWindow)[i].content), k)}

\* The values context['keywords'][:2] may have: the first two elements of
\* some listing of the set.
KeywordPicks(keywords) ==
    {picked \in SeqsUpTo(keywords, 2) :
        /\ Len(picked) = (IF Cardinality(keywords) < 2 THEN Cardinality(keywords) ELSE 2)
        /\ \A i, j \in 1..Len(picked) : i # j => picked[i] # picked[j]}

\* len(user_query.split())
WordCount(s) ==
    Cardinality({i \in 1..Len(s) :
                    /\ ~IsSpace(CharAt(s, i))
                    /\ (i = 1 \/ IsSpace(CharAt(s, i - 1)))})

\* handle_query before the search (lines 366-413): the category, the
\* sub-mode and the reference part.
SearchPlan(user_query, category_arg, history) ==
    LET from_query == OrElse(category_arg, ExtractCategoryFromQuery(user_query))
        reference == IF IsSimilarQuery(user_query)
                     THEN ExtractContextFromHistory(history).part_number
                     ELSE None
    IN [category |-> OrElse(from_query, CategoryFromHistory(history)),
        meta |-> IsMetaQuery(user_query),
        reference_part |-> IF Truthy(reference) THEN reference ELSE None,
        keywords |-> IF ~Truthy(reference) /\ WordCount(user_query) <= 3
                     THEN KeywordsFromHistory(history) ELSE {}]

\* enhanced_query
EnhancedQuery(user_query, picked) ==
    IF picked = <<>> THEN user_query ELSE user_query \o " " \o Join(picked)

\* The search call of search_parts(query, category, reference_part_number).
SearchPartsCalls(store, query, category, reference_part_number) ==
    IF Truthy(reference_part_number) /\ PartExists(reference_part_number)
    THEN <<SearchCall(store,
                      PartName[reference_part_number] \o " " \o
                      PartCategory[reference_part_number] \o " " \o
                      OrElse(PartSubcategory[reference_part_number], ""),
                      6, PartCategory[reference_part_number])>>
    ELSE <<SearchCall(store, query, 5, category)>>

\* Variant: the reference part is not filtered out of the hits.
SearchParts_KeepsReference(store, query, category, reference_part_number) ==
    IF Truthy(reference_part_number) /\ PartExists(reference_part_number)
    THEN FirstN(PartRows(VectorSearch(store, 6,
                                      PartCategory[reference_part_number])), 5)
    ELSE PartRows(VectorSearch(store, 5, category))

\* search_parts(query, category, reference_part_number): the parts returned.
SearchParts(store, query, category, reference_part_number) ==
    IF Truthy(reference_part_number) /\ PartExists(reference_part_number)
    THEN FirstN(PartRows(SelectSeq(
                    VectorSearch(store, 6, PartCategory[reference_part_number]),
                    LAMBDA d : d.part_number # reference_part_number)), 5)
    ELSE PartRows(VectorSearch(store, 5, category))

\* get_available_parts_by_category(category): the rows, in table order.
AvailableParts(category) ==
    SelectSeq(PartOrder,
              LAMBDA p : ~Truthy(category) \/ PartCategory[p] = category)

\* sample_parts[:5] of the meta-query branch: the first part of each
\* subcategory, subcategories in order of first appearance.
SampleParts(category) ==
    LET rows == AvailableParts(category)
        subcategory(p) == OrElse(PartSubcategory[p], "Other")
        firsts == {k \in 1..Len(rows) :
                      \A j \in 1..(k - 1) : subcategory(rows[j]) # subcategory(rows[k])}
    IN FirstN(SelectSeq(rows,
                  LAMBDA p : \E k \in firsts : rows[k] = p), 5)

\* The text generate_response returns when no part was found.
NoPartsText ==
    "I couldn't find any parts matching your search. Could you provide more details about what you're looking for?"

\* ProductSearchAgent.handle_query once planned: the search, the narrative
\* of the completion service (or its failure) and the returned dict.
ProductSearchResult(user_query, plan, picked, store, narrative) ==
    IF plan.meta
    THEN [raised |-> narrative = LlmFailure, calls |-> 1, searches |-> <<>>,
          queries |-> <<>>,
          returned |->
              IF narrative = LlmFailure THEN NoResult
              ELSE [response |-> narrative, parts |-> SampleParts(plan.category),
                    agent |-> "product_search", error |-> Absent]]
    ELSE LET parts == SearchParts(store, EnhancedQuery(user_query, picked),
                                  plan.category, plan.reference_part)
             calls == SearchPartsCalls(store, EnhancedQuery(user_query, picked),
                                       plan.category, plan.reference_part)
         IN [raised |-> parts # <<>> /\ narrative = LlmFailure,
             calls |-> IF parts # <<>> THEN 1 ELSE 0,
             searches |-> calls,
             queries |->
                 IF ~Truthy(plan.reference_part) THEN HitNumbers(calls)
                 ELSE IF ~PartExists(plan.reference_part)
                 THEN <<plan.reference_part>> \o HitNumbers(calls)
                 ELSE <<plan.reference_part>> \o
                      SelectSeq(HitNumbers(calls),
                                LAMBDA p : p # plan.reference_part),
             returned |->
                 IF parts # <<>> /\ narrative = LlmFailure THEN NoResult
                 ELSE [response |-> IF parts = <<>> THEN NoPartsText ELSE narrative,
                       parts |-> FirstN(parts, 3),
                       agent |-> "product_search", error |-> Absent]]

(***************************************************************************)
(* State shared by the specifications                                      *)
(***************************************************************************)

\* The state before any operation, on the given inputs.
Fresh(message, history, part, model) ==
    /\ user_message = message
    /\ conversation_history = history
    /\ arg_part = part
    /\ arg_model = model
    /\ op = "none"
    /\ llm_calls = 0
    /\ llm_response = None
    /\ llm_narrative = None
    /\ vector_searches = <<>>
    /\ history_scans = 0
    /\ db_queries = <<>>
    /\ result = NoResult
    /\ conversations = 0
    /\ lists = <<>>
    /\ requests = <<>>
    /\ erased = {}

\* The state of the HTTP layer, which no agent touches.
Session == <<conversations, lists, requests, erased>>

Inputs == <<user_message, conversation_history, arg_part, arg_model>>

\* What only the installation, troubleshooting and product search handlers
\* touch.
Collaborators == <<llm_narrative, vector_searches>>

(***************************************************************************)
(* Specification SpecRouter: one route call on every message and history   *)
(***************************************************************************)

MaxRouterWords == 2
MaxRouterHist == 4

RouterVocab ==
    {"How long", "how much time", "time estimate", "duration", "take to install",
     "install", "installation", "replace", "how do I",
     "PS11752778", "ps100", "tips"}

RouterMessages == {Join(w) : w \in SeqsUpTo(RouterVocab, MaxRouterWords)}

RouterTurns ==
    {[role |-> "user", content |-> "tell me about ps100"],
     [role |-> "assistant", content |-> "Sure, what else?"]}

RouterHistories == SeqsUpTo(RouterTurns, MaxRouterHist)

\* What the completion service may do when asked to classify.
RouterResponses ==
    {"PRODUCT_SEARCH", "COMPATIBILITY_CHECK", " installation_help\n",
     "TROUBLESHOOTING", "ORDER_SUPPORT", "Out_Of_Scope",
     "Category: TROUBLESHOOTING", "", LlmFailure}

InitRouter ==
    \E m \in RouterMessages, h \in RouterHistories : Fresh(m, h, None, None)

\* One call of RouterAgent.route.  The completion service is asked, and
\* answers any of RouterResponses, only when no pre-rule applies.
Route ==
    /\ op = "none"
    /\ \E rule \in {PreRule(user_message, conversation_history)} :
         \E response \in IF rule = 3 THEN RouterResponses ELSE {None} :
            \E r \in {RouteResult(rule, response)} :
               /\ op' = "route"
               /\ llm_calls' = r.calls
               /\ llm_response' = response
               /\ result' = [kind |-> "route", category |-> r.category,
                             raised |-> r.raised, rule |-> rule]
    /\ UNCHANGED <<Inputs, Session, Collaborators, history_scans, db_queries>>

NextRouter == Route

SpecRouter == InitRouter /\ [][NextRouter]_vars

(***************************************************************************)
(* Specification SpecExtract: each extraction operation on every text      *)
(***************************************************************************)

MaxExtractWords == 2
MaxExtractHist == 5

ExtractVocab ==
    {"PS11752778", "ps100", "WDT780SAEM1", "wrs325sdhz", "compatible", "fits"}

ExtractMessages == {Join(w) : w \in SeqsUpTo(ExtractVocab, MaxExtractWords)}

ExtractTurns ==
    {[role |-> "assistant", content |-> "ok"],
     [role |-> "user", content |-> "ps200 or PS300"],
     [role |-> "user", content |-> "PS11752778 please"],
     [role |-> "user", content |-> "my WDT780SAEM1"],
     [role |-> "assistant", content |-> "PS11752778 fits wrs325sdhz"]}

ExtractHistories == SeqsUpTo(ExtractTurns, MaxExtractHist)

\* What the completion service may do when asked to extract identifiers.
ExtractResponses ==
    {"PART_NUMBER: NONE\nMODEL_NUMBER: NONE",
     "PART_NUMBER: PS999\nMODEL_NUMBER: KDFE104HPS",
     "\nPART_NUMBER: ps999\nMODEL_NUMBER: NONE\n",
     "PART_NUMBER:\nMODEL_NUMBER: kdfe104hps",
     "The part is PS999 and the model is KDFE104HPS",
     LlmFailure}

\* The single-message operation reads only the message and the history
\* operations only the history, so one of the two is left empty.
InitExtract ==
    \/ \E m \in ExtractMessages : Fresh(m, <<>>, None, None)
    \/ \E h \in ExtractHistories : Fresh("", h, None, None)

\* One call of CompatibilityAgent.extract_part_and_model(user_message).
ExtractSingle ==
    /\ op = "none"
    /\ \E response \in IF RegexFoundBoth(user_message)
                       THEN {None} ELSE ExtractResponses :
         \E r \in {ExtractPartAndModelResult(user_message, response)} :
            /\ op' = "extract"
            /\ llm_calls' = r.calls
            /\ llm_response' = response
            /\ result' = [kind |-> "extract", part_number |-> r.part_number,
                          model_number |-> r.model_number, raised |-> r.raised]
    /\ UNCHANGED <<Inputs, Session, Collaborators, history_scans, db_queries>>

\* One call of CompatibilityAgent.extract_from_history(conversation_history).
ExtractHistory ==
    /\ op = "none"
    /\ \E r \in {ExtractFromHistory(conversation_history)} :
         /\ op' = "history"
         /\ result' = [kind |-> "history", part_number |-> r.part_number,
                       model_number |-> r.model_number, raised |-> FALSE]
    /\ UNCHANGED <<Inputs, Session, Collaborators, llm_calls, llm_response, history_scans, db_queries>>

\* One call of ProductSearchAgent.extract_context_from_history.
ExtractContext ==
    /\ op = "none"
    /\ \E r \in {ExtractContextFromHistory(conversation_history)} :
         /\ op' = "context"
         /\ result' = [kind |-> "context", part_number |-> r.part_number,
                       model_number |-> r.model_number, raised |-> FALSE]
    /\ UNCHANGED <<Inputs, Session, Collaborators, llm_calls, llm_response, history_scans, db_queries>>

NextExtract == ExtractSingle \/ ExtractHistory \/ ExtractContext

SpecExtract == InitExtract /\ [][NextExtract]_vars

(***************************************************************************)
(* Specification SpecHandle: one CompatibilityAgent.handle_query call      *)
(***************************************************************************)

MaxHandleWords == 2
MaxHandleHist == 2

HandleVocab ==
    {"PS11752778", "ps100", "PS404", "WDT780SAEM1", "wrs325sdhz", "fits"}

HandleMessages == {Join(w) : w \in SeqsUpTo(HandleVocab, MaxHandleWords)}

HandleTurns ==
    {[role |-> "user", content |-> "my WDT780SAEM1"],
     [role |-> "user", content |-> "PS100 please"],
     [role |-> "assistant", content |-> "ok"]}

HandleHistories == SeqsUpTo(HandleTurns, MaxHandleHist)

\* The optional part_number and model_number arguments.
HandlePartArgs == {None, "PS404"}
HandleModelArgs == {None, "MODEL00B"}

InitHandle ==
    \E m \in HandleMessages, h \in HandleHistories,
       p \in HandlePartArgs, md \in HandleModelArgs : Fresh(m, h, p, md)

\* One call of CompatibilityAgent.handle_query.  The completion service is
\* asked only by the extraction fallback.
HandleQuery ==
    /\ op = "none"
    /\ \E response \in IF NeedsExtraction(arg_part, arg_model)
                          /\ ~RegexFoundBoth(user_message)
                       THEN ExtractResponses ELSE {None} :
         \E r \in {HandleQueryResult(user_message, arg_part, arg_model,
                                     conversation_history, response)} :
            /\ op' = "handle"
            /\ llm_calls' = r.calls
            /\ llm_response' = response
            /\ history_scans' = IF r.scans THEN 1 ELSE 0
            /\ db_queries' = r.queries
            /\ result' = [kind |-> "handle", raised |-> r.raised,
                          extracts |-> r.extracts,
                          extracted_part |-> r.extracted.part_number,
                          extracted_model |-> r.extracted.model_number,
                          context_part |-> r.context.part_number,
                          context_model |-> r.context.model_number,
                          part_number |-> r.part_number,
                          model_number |-> r.model_number,
                          check |-> r.check,
                          returned |-> r.returned]
    /\ UNCHANGED <<Inputs, Session, Collaborators>>

NextHandle == HandleQuery

SpecHandle == InitHandle /\ [][NextHandle]_vars

(***************************************************************************)
(* Specification SpecCheck: one check_compatibility call, as the           *)
(* /api/compatibility endpoint makes it, on every part and model           *)
(***************************************************************************)

CheckParts == PartNumbers \cup {"PS404", "ps100"}

\* Every listed model as stored, in lower case and in upper case, and
\* identifiers that no part lists.
CheckModels ==
    UNION {UNION {{Catalog[p][k], Lower(Catalog[p][k]), Upper(Catalog[p][k])} :
                     k \in 1..Len(Catalog[p])} : p \in PartNumbers}
    \cup {"WRS325SDHZ", "Model00c", "MODEL00", "MODEL00AA", "WDT780"}

InitCheck == \E p \in CheckParts, m \in CheckModels : Fresh("", <<>>, p, m)

\* One call of CompatibilityAgent.check_compatibility(arg_part, arg_model).
CheckCompat ==
    /\ op = "none"
    /\ op' = "check"
    /\ db_queries' = <<arg_part>>
    /\ result' = [kind |-> "check",
                  check |-> CheckCompatibility(arg_part, arg_model)]
    /\ UNCHANGED <<Inputs, Session, Collaborators, llm_calls, llm_response, history_scans>>

NextCheck == CheckCompat

SpecCheck == InitCheck /\ [][NextCheck]_vars

(***************************************************************************)
(* Specification SpecAgents: one handle_query call of one of the four      *)
(* specialist agents on every message, history and part argument           *)
(***************************************************************************)

MaxAgentHist == 2

AgentPhrases ==
    {"", "how long to install", "how do I install", "my dishwasher is leaking",
     "the fridge is noisy", "show all parts", "similar parts",
     "show all similar parts"}

AgentTokens == {"", "PS11752778", "ps100", "PS200", "PS300", "PS400", "PS404"}

AgentMessages == {Strip(p \o " " \o t) : p \in AgentPhrases, t \in AgentTokens}

AgentTurns ==
    {[role |-> "user", content |-> "my refrigerator PS100"],
     [role |-> "assistant", content |-> "the dishwasher pump PS11752778 has a seal"],
     [role |-> "user", content |-> "thanks"]}

\* Two histories longer than the window of 4 that the history scans read:
\* one with part identifiers on both sides of the window's edge, one with
\* its only part identifier before the window.
AgentLongHistories ==
    LET ps100 == [role |-> "user", content |-> "my refrigerator PS100"]
        pump == [role |-> "assistant",
                 content |-> "the dishwasher pump PS11752778 has a seal"]
        thanks == [role |-> "user", content |-> "thanks"]
    IN {<<ps100, pump, thanks, ps100, thanks>>,
        <<pump, thanks, thanks, thanks, thanks>>}

AgentHistories == SeqsUpTo(AgentTurns, MaxAgentHist) \cup AgentLongHistories

\* The optional part_number argument of InstallationAgent.handle_query and
\* CompatibilityAgent.handle_query.
AgentPartArgs == {None, "PS400"}

\* The optional category argument of ProductSearchAgent.handle_query.
CategoryArgs == {None, "Refrigerator"}

\* What the completion service may do when asked for a part number.
InstallResponses == {"NONE", " PS300\n", "none", "", LlmFailure}

\* What the completion service may do when asked for a narrative.
AgentNarratives == {"Here is what I found.", "", LlmFailure}

\* The collection ranks every part, and a document whose part has left the
\* parts table.
RankingStale ==
    <<Metadata("PS200", "Dishwasher"), Metadata("PS999", "Dishwasher"),
      Metadata("PS11752778", "Dishwasher"), Metadata("PS100", "Refrigerator"),
      Metadata("PS400", "Dishwasher"), Metadata("PS300", "Refrigerator")>>

\* The collection ranks exactly the parts of the table.
RankingFull ==
    <<Metadata("PS100", "Refrigerator"), Metadata("PS11752778", "Dishwasher"),
      Metadata("PS300", "Refrigerator"), Metadata("PS200", "Dishwasher"),
      Metadata("PS400", "Dishwasher")>>

\* The states the vector store of an agent may be in.
AgentStores ==
    {StoreRanking(<<>>), StoreRanking(RankingStale), StoreRanking(RankingFull),
     StoreError}

\* InstallationAgent also runs without a vector store.
InstallStores == AgentStores \cup {StoreNone}

InitAgents ==
    \E m \in AgentMessages, h \in AgentHistories, p \in AgentPartArgs :
        Fresh(m, h, p, None)

\* extract_part_number raised: nothing follows.
InstallRaised ==
    [returned |-> NoResult, finds |-> 0, searches |-> <<>>, queries |-> <<>>,
     narrates |-> FALSE]

\* One call of InstallationAgent.handle_query.
InstallQuery ==
    /\ op = "none"
    /\ \E response \in IF ~Truthy(arg_part) /\ PartSearch(user_message) = None
                       THEN InstallResponses ELSE {None} :
       \E resolved \in {InstallResolved(user_message, arg_part,
                                        conversation_history, response)} :
       \E store \in IF InstallSearches(user_message, resolved)
                    THEN InstallStores ELSE {StoreNone} :
       \E narrative \in IF InstallNarrates(user_message, resolved)
                        THEN AgentNarratives ELSE {None} :
       \E r \in {IF resolved.raised THEN InstallRaised
                 ELSE InstallDispatch(user_message, resolved.part_number,
                                      store, narrative)} :
          /\ op' = "install"
          /\ llm_calls' = resolved.calls + (IF r.narrates THEN 1 ELSE 0)
          /\ llm_response' = response
          /\ llm_narrative' = narrative
          /\ vector_searches' = r.searches
          /\ history_scans' = IF resolved.scans THEN 1 ELSE 0
          /\ db_queries' = r.queries
          /\ result' = [kind |-> "install", raised |-> resolved.raised,
                        part_number |-> resolved.part_number,
                        finds |-> r.finds,
                        store |-> IF r.finds > 0 THEN store.status ELSE "unused",
                        returned |-> r.returned]
    /\ UNCHANGED <<Inputs, Session>>

\* One call of TroubleshootingAgent.handle_query.
TroubleshootQuery ==
    /\ op = "none"
    /\ \E store \in AgentStores :
       \E narrative \in
            IF DiagnoseProblem(store, user_message,
                               ApplianceTypeFromHistory(conversation_history)) # <<>>
            THEN AgentNarratives ELSE {None} :
       \E r \in {TroubleshootingResult(user_message, conversation_history,
                                       store, narrative)} :
          /\ op' = "troubleshoot"
          /\ llm_calls' = r.calls
          /\ llm_narrative' = narrative
          /\ vector_searches' = r.searches
          /\ history_scans' = 1
          /\ db_queries' = HitNumbers(r.searches)
          /\ result' = [kind |-> "troubleshoot", raised |-> r.raised,
                        category |-> r.category, returned |-> r.returned]
    /\ UNCHANGED <<Inputs, Session, llm_response>>

\* One call of ProductSearchAgent.handle_query.
SearchQuery ==
    /\ op = "none"
    /\ \E category_arg \in CategoryArgs :
       \E plan \in {SearchPlan(user_message, category_arg, conversation_history)} :
       \E picked \in IF plan.meta THEN {<<>>} ELSE KeywordPicks(plan.keywords) :
       \E store \in IF plan.meta THEN {StoreNone} ELSE AgentStores :
       \E narrative \in
            IF plan.meta
               \/ SearchParts(store, EnhancedQuery(user_message, picked),
                              plan.category, plan.reference_part) # <<>>
            THEN AgentNarratives ELSE {None} :
       \E r \in {ProductSearchResult(user_message, plan, picked, store, narrative)} :
          /\ op' = "search"
          /\ llm_calls' = r.calls
          /\ llm_narrative' = narrative
          /\ vector_searches' = r.searches
          /\ history_scans' = 1
          /\ db_queries' = r.queries
          /\ result' = [kind |-> "search", raised |-> r.raised,
                        category_arg |-> category_arg,
                        category |-> plan.category,
                        meta |-> plan.meta,
                        reference_part |-> plan.reference_part,
                        returned |-> r.returned]
    /\ UNCHANGED <<Inputs, Session, llm_response>>

NextAgents == HandleQuery \/ InstallQuery \/ TroubleshootQuery \/ SearchQuery

SpecAgents == InitAgents /\ [][NextAgents]_vars

(***************************************************************************)
(* Router claims                                                           *)
(***************************************************************************)

SixIntents ==
    {"PRODUCT_SEARCH", "COMPATIBILITY_CHECK", "INSTALLATION_HELP",
     "TROUBLESHOOTING", "ORDER_SUPPORT", "OUT_OF_SCOPE"}

\* The message contains a part identifier / a keyword of the set, ignoring case.
MessageHasPart == PartSearch(user_message) # None
MessageHasKeyword(keywords) == \E k \in keywords : Contains(Lower(user_message), k)

\* C1: whenever route returns, it returns one of the six intents, and a
\* classifier response that, trimmed and upper-cased, is not one of the six
\* names yields PRODUCT_SEARCH.
C1_RouterTotal ==
    op = "route" /\ ~result.raised =>
        /\ result.category \in SixIntents
        /\ (llm_calls = 1 /\ Upper(Strip(llm_response)) \notin SixIntents
               => result.category = "PRODUCT_SEARCH")

\* A malformed classifier response was coerced to PRODUCT_SEARCH.
C1_Witness ==
    /\ op = "route"
    /\ llm_calls = 1
    /\ llm_response = "Category: TROUBLESHOOTING"
    /\ result.category = "PRODUCT_SEARCH"

\* C2: a message with an installation-action keyword and a part identifier is
\* routed to INSTALLATION_HELP without any completion-service call, for any
\* history.
C2_InstallPreRule ==
    (/\ op = "route"
     /\ MessageHasPart
     /\ MessageHasKeyword({"install", "installation", "replace", "how do i"}))
    => /\ ~result.raised
       /\ result.category = "INSTALLATION_HELP"
       /\ llm_calls = 0

\* "how do I PS11752778" was routed by pre-rule 2 with a non-empty history.
C2_Witness ==
    /\ op = "route"
    /\ user_message = "how do I PS11752778"
    /\ conversation_history # <<>>
    /\ result.rule = 2
    /\ result.category = "INSTALLATION_HELP"
    /\ llm_calls = 0

\* One of the last 3 turns of the history contains a part identifier.
Last3HasPart ==
    \E k \in 1..Len(conversation_history) :
        /\ k > Len(conversation_history) - 3
        /\ PartSearch(conversation_history[k].content) # None

\* Some turn older than the last 3 contains a part identifier.
OlderHasPart ==
    \E k \in 1..Len(conversation_history) :
        /\ k <= Len(conversation_history) - 3
        /\ PartSearch(conversation_history[k].content) # None

\* C3: for a message with a duration keyword, route returns INSTALLATION_HELP
\* without consulting the classifier exactly when the message or one of the
\* last 3 turns contains a part identifier; otherwise the classifier is
\* consulted and its (validated) answer is the intent.
C3_DurationPreRule ==
    (/\ op = "route"
     /\ MessageHasKeyword({"how long", "how much time", "time estimate",
                           "duration", "take to install"}))
    => /\ (llm_calls = 0 /\ result.category = "INSTALLATION_HELP")
             <=> (MessageHasPart \/ Last3HasPart)
       /\ ~(MessageHasPart \/ Last3HasPart) =>
             /\ llm_calls = 1
             /\ llm_response \in RouterResponses
             /\ ~result.raised =>
                   result.category =
                      IF Upper(Strip(llm_response)) \in SixIntents
                      THEN Upper(Strip(llm_response)) ELSE "PRODUCT_SEARCH"

\* A bare duration question whose only part context is older than the last
\* 3 turns went to the classifier, which answered TROUBLESHOOTING.
C3_Witness ==
    /\ op = "route"
    /\ MessageHasKeyword({"how long"})
    /\ ~MessageHasPart
    /\ OlderHasPart /\ ~Last3HasPart
    /\ llm_calls = 1
    /\ result.category = "TROUBLESHOOTING"

(***************************************************************************)
(* Extraction claims                                                       *)
(***************************************************************************)

\* v is, as a whole, a part identifier: PS followed by digits only.
IsPartIdentifier(v) ==
    /\ v # None
    /\ PartMatchAt(v, 1)
    /\ DigitRunEnd(v, 3) = Len(v)

\* The maximal alphanumeric tokens of a text, left to right.
RECURSIVE TokensFrom(_, _)
TokensFrom(s, i) ==
    IF i > Len(s) THEN <<>>
    ELSE IF IsAlnum(CharAt(s, i))
         THEN <<SubSeq(s, i, AlnumRunEnd(s, i))>> \o TokensFrom(s, AlnumRunEnd(s, i) + 1)
         ELSE TokensFrom(s, i + 1)

Tokens(s) == TokensFrom(s, 1)

\* A token shaped like a model identifier: at least 2 leading letters and
\* at least 7 alphanumeric characters in all.
IsModelLike(token) ==
    /\ Len(token) >= 7
    /\ IsLetter(CharAt(token, 1))
    /\ IsLetter(CharAt(token, 2))

PartTokens(s) == {k \in 1..Len(Tokens(s)) : IsPartIdentifier(Tokens(s)[k])}
OtherModelLikeTokens(s) ==
    {k \in 1..Len(Tokens(s)) :
        IsModelLike(Tokens(s)[k]) /\ ~IsPartIdentifier(Tokens(s)[k])}

\* C4: no extraction operation returns a model identifier that is a part
\* identifier; and for a text holding one part identifier and no other
\* model-like token, pattern matching alone leaves the model identifier unset
\* and the part identifier is that identifier uppercased.
C4_ExclusionInvariant ==
    (op \in {"extract", "history", "context"} /\ ~result.raised) =>
        /\ ~IsPartIdentifier(result.model_number)
        /\ (/\ op = "extract"
            /\ Cardinality(PartTokens(user_message)) = 1
            /\ OtherModelLikeTokens(user_message) = {}
            /\ llm_calls = 0)
           => /\ result.model_number = None
              /\ \E k \in PartTokens(user_message) :
                    result.part_number = Upper(Tokens(user_message)[k])

\* The lines of the fallback response that carry a value for the given key.
FallbackValues(key) ==
    LET lines == SplitLines(Strip(llm_response))
    IN {ValueAfterColon(lines[k]) :
           k \in {j \in 1..Len(lines) :
                     StartsWith(lines[j], key) /\ ValueAfterColon(lines[j]) # "NONE"}}

\* C6: the fallback of single-message extraction is additive: a field set by
\* pattern matching keeps that value, and a field that differs from its
\* pattern-matched value was unset by pattern matching and holds the value
\* of a fallback line with the field's key prefix and a value other than NONE.
C6_FallbackAdditive ==
    (op = "extract" /\ ~result.raised) =>
        LET regex_part == IF PartSearch(user_message) = None THEN None
                          ELSE Upper(PartSearch(user_message))
            regex_model == IF ModelSearch(user_message) = None THEN None
                           ELSE Upper(ModelSearch(user_message))
        IN /\ regex_part # None => result.part_number = regex_part
           /\ regex_model # None => result.model_number = regex_model
           /\ result.part_number # regex_part =>
                 /\ llm_calls = 1
                 /\ result.part_number \in FallbackValues("PART_NUMBER:")
           /\ result.model_number # regex_model =>
                 /\ llm_calls = 1
                 /\ result.model_number \in FallbackValues("MODEL_NUMBER:")

\* The fallback was asked about a message with a pattern-matched part and
\* answered with another part and a model: only the model was filled in.
C6_Witness ==
    /\ op = "extract"
    /\ user_message = "ps100 fits"
    /\ llm_response = "PART_NUMBER: PS999\nMODEL_NUMBER: KDFE104HPS"
    /\ result.part_number = "PS100"
    /\ result.model_number = "KDFE104HPS"

\* The turns of the last 4 that contain a part identifier.
WindowPartTurns ==
    {k \in 1..Len(conversation_history) :
        /\ k > Len(conversation_history) - 4
        /\ PartSearch(conversation_history[k].content) # None}

\* C7: extract_from_history returns the part identifier of the earliest turn,
\* among the last 4, that contains one (none when no such turn), and never
\* calls the completion service.
C7_HistoryEarliestWins ==
    op = "history" =>
        /\ llm_calls = 0
        /\ result.part_number =
              IF WindowPartTurns = {} THEN None
              ELSE LET first == CHOOSE k \in WindowPartTurns :
                                   \A j \in WindowPartTurns : k <= j
                   IN Upper(PartSearch(conversation_history[first].content))

\* Five turns: the first, outside the window, mentions PS11752778; the
\* second mentions PS200 and a later one PS11752778 again: PS200 is returned.
C7_Witness ==
    /\ op = "history"
    /\ Len(conversation_history) = 5
    /\ conversation_history[1].content = "PS11752778 please"
    /\ conversation_history[2].content = "ps200 or PS300"
    /\ conversation_history[4].content = "PS11752778 please"
    /\ result.part_number = "PS200"

(***************************************************************************)
(* Compatibility handler claims                                            *)
(***************************************************************************)

\* The message holds exactly one part-identifier token and exactly one other
\* model-like token, in either order.
OnePartOneModel ==
    /\ Cardinality(PartTokens(user_message)) = 1
    /\ Cardinality(OtherModelLikeTokens(user_message)) = 1

ThePartToken == Tokens(user_message)[CHOOSE k \in PartTokens(user_message) : TRUE]
TheModelToken ==
    Tokens(user_message)[CHOOSE k \in OtherModelLikeTokens(user_message) : TRUE]

\* C5: for a message with a part identifier and, separately, a model
\* identifier, single-message extraction yields the part identifier and the
\* model identifier, uppercased, and the handler resolves both without a
\* history scan.
C5_BothFromMessage ==
    (/\ op = "handle"
     /\ arg_part = None /\ arg_model = None
     /\ OnePartOneModel)
    => /\ ~result.raised
       /\ result.extracted_part = Upper(ThePartToken)
       /\ result.extracted_model = Upper(TheModelToken)
       /\ result.part_number = Upper(ThePartToken)
       /\ result.model_number = Upper(TheModelToken)
       /\ history_scans = 0

\* The value a source yields for an entity counts when it is not empty.
Held(arg, extracted) == IF Truthy(arg) THEN arg ELSE extracted

\* C8: each entity comes from the explicit argument if given, else from
\* current-message extraction, else from the history scan; an earlier
\* source's value is never replaced; the history scan runs only when an
\* entity is still missing after current-message extraction.
C8_ResolutionOrder ==
    (op = "handle" /\ ~result.raised) =>
        LET held_part == Held(arg_part, result.extracted_part)
            held_model == Held(arg_model, result.extracted_model)
            scan == ExtractFromHistory(conversation_history)
        IN /\ Truthy(arg_part) => result.part_number = arg_part
           /\ Truthy(arg_model) => result.model_number = arg_model
           /\ Truthy(held_part) => result.part_number = held_part
           /\ Truthy(held_model) => result.model_number = held_model
           /\ ~Truthy(held_part) =>
                 IF Truthy(scan.part_number)
                 THEN result.part_number = scan.part_number
                 ELSE ~Truthy(result.part_number)
           /\ ~Truthy(held_model) =>
                 IF Truthy(scan.model_number)
                 THEN result.model_number = scan.model_number
                 ELSE ~Truthy(result.model_number)
           /\ history_scans = 1 => ~Truthy(held_part) \/ ~Truthy(held_model)
           /\ history_scans \in {0, 1}

\* The model came from the argument, the message gave nothing, and the part
\* came from the history scan.
C8_Witness ==
    /\ op = "handle"
    /\ arg_part = None /\ arg_model = "MODEL00B"
    /\ user_message = "fits"
    /\ ~result.raised
    /\ ~Truthy(result.extracted_part)
    /\ history_scans = 1
    /\ result.part_number = "PS100"
    /\ result.model_number = "MODEL00B"
    /\ result.returned.compatible = PyTrue

MissingCodes == {"MISSING_BOTH", "MISSING_PART_NUMBER", "MISSING_MODEL_NUMBER"}

\* C9: after resolution the error is MISSING_BOTH exactly when both entities
\* are unresolved, MISSING_PART_NUMBER exactly when only the part is, and
\* MISSING_MODEL_NUMBER exactly when only the model is; then compatible is
\* None and the Catalog Store is not queried.
C9_MissingTaxonomy ==
    (op = "handle" /\ ~result.raised) =>
        LET no_part == ~Truthy(result.part_number)
            no_model == ~Truthy(result.model_number)
            error == result.returned.error
        IN /\ error = "MISSING_BOTH" <=> (no_part /\ no_model)
           /\ error = "MISSING_PART_NUMBER" <=> (no_part /\ ~no_model)
           /\ error = "MISSING_MODEL_NUMBER" <=> (~no_part /\ no_model)
           /\ error \in MissingCodes =>
                 /\ result.returned.compatible = None
                 /\ db_queries = <<>>

\* Only the model number was resolved, from the history.
C9_Witness ==
    /\ op = "handle"
    /\ ~result.raised
    /\ result.returned.error = "MISSING_PART_NUMBER"
    /\ history_scans = 1
    /\ result.model_number = "WDT780SAEM1"
    /\ result.returned.compatible = None
    /\ db_queries = <<>>

\* C10: with both entities resolved and the part identifier absent from the
\* Catalog Store, check_compatibility answers PART_NOT_FOUND with compatible
\* None and the handler result carries the queried part identifier.
C10_PartNotFound ==
    (/\ op = "handle" /\ ~result.raised
     /\ Truthy(result.part_number) /\ Truthy(result.model_number)
     /\ result.part_number \notin DOMAIN Catalog)
    => /\ db_queries = <<result.part_number>>
       /\ result.check.error = "PART_NOT_FOUND"
       /\ result.check.compatible = None
       /\ result.returned.error = "PART_NOT_FOUND"
       /\ result.returned.compatible = None
       /\ result.returned.part_number = result.part_number

\* PS404, taken from the message, is not in the catalog.
C10_Witness ==
    /\ op = "handle"
    /\ ~result.raised
    /\ arg_part = None
    /\ result.part_number = "PS404"
    /\ result.model_number = "WDT780SAEM1"
    /\ db_queries = <<"PS404">>
    /\ result.returned.error = "PART_NOT_FOUND"
    /\ result.returned.part_number = "PS404"

(***************************************************************************)
(* check_compatibility claims                                              *)
(***************************************************************************)

\* Some member of the part's compatible-model list equals the model
\* identifier once both are lower-cased.
ListsModel(part_number, model_number) ==
    \E k \in 1..Len(Catalog[part_number]) :
        Lower(Catalog[part_number][k]) = Lower(model_number)

\* C11: for a part in the Catalog Store, check_compatibility answers
\* compatible = True exactly when the model identifier equals, ignoring
\* letter case, a member of the part's compatible-model list; otherwise it
\* answers compatible = False with the first min(5, n) members as suggestions.
C11_CaseInsensitiveMembership ==
    (op = "check" /\ arg_part \in PartNumbers)
    => LET n == Len(Catalog[arg_part])
           shown == IF n < 5 THEN n ELSE 5
       IN /\ (result.check.compatible = PyTrue) <=> ListsModel(arg_part, arg_model)
          /\ result.check.compatible \in {PyTrue, PyFalse}
          /\ result.check.error = Absent
          /\ ~ListsModel(arg_part, arg_model)
             => /\ Len(result.check.compatible_models) = shown
                /\ \A k \in 1..shown :
                      result.check.compatible_models[k] = Catalog[arg_part][k]

\* The sixth model of PS100, typed in lower case, is found compatible.
C11_Witness ==
    /\ op = "check"
    /\ arg_part = "PS100"
    /\ arg_model = "model00f"
    /\ result.check.compatible = PyTrue

AsksDuration == MessageHasKeyword(TimeEstimateKeywords)

\* InstallationAgent.handle_query returned, holding this part of the catalog.
InstallHolds(part_number) ==
    /\ op = "install"
    /\ ~result.raised
    /\ result.part_number = part_number
    /\ part_number \in PartNumbers

\* C13: for a duration-style query with a resolved part of the catalog, the
\* estimated time is "10-20 minutes" for difficulty Easy, "30-60 minutes" for
\* Moderate, "1-2 hours" for Difficult and "30-45 minutes" for every other
\* or missing difficulty.
C13_TimeEstimateTable ==
    \A p \in PartNumbers :
        (InstallHolds(p) /\ AsksDuration)
        => LET difficulty == installation_difficulty[p]
               estimated_time == result.returned.estimated_time
           IN /\ result.returned.error = Absent
              /\ difficulty = "Easy" => estimated_time = "10-20 minutes"
              /\ difficulty = "Moderate" => estimated_time = "30-60 minutes"
              /\ difficulty = "Difficult" => estimated_time = "1-2 hours"
              /\ difficulty \notin {"Easy", "Moderate", "Difficult"}
                 => estimated_time = "30-45 minutes"

\* PS300 has no difficulty recorded and is estimated at 30-45 minutes.
C13_Witness ==
    /\ InstallHolds("PS300")
    /\ AsksDuration
    /\ installation_difficulty["PS300"] = None
    /\ result.returned.difficulty = "Unknown"
    /\ result.returned.estimated_time = "30-45 minutes"

\* InstallationAgent.handle_query returned without having resolved a part
\* identifier from the argument, the message or the history.
InstallHoldsNoPart ==
    /\ op = "install"
    /\ ~result.raised
    /\ ~Truthy(result.part_number)

\* The result carries NO_PART_NUMBER after one find_relevant_parts call over
\* the raw query, with at most 3 candidate parts, and none when the search
\* found nothing or there is no vector store.
SoftRecovery ==
    /\ result.finds = 1
    /\ result.returned.error = "NO_PART_NUMBER"
    /\ result.store # "none"
       => /\ Len(vector_searches) = 1
          /\ vector_searches[1].query = user_message
          /\ vector_searches[1].n_results = 3
    /\ result.store = "none" => vector_searches = <<>>
    /\ result.returned.suggested_parts # AbsentList
       => /\ Len(result.returned.suggested_parts) \in 1..3
          /\ \A k \in 1..Len(result.returned.suggested_parts) :
                result.returned.suggested_parts[k] \in PartNumbers
          /\ result.store = "ok"
    /\ result.returned.suggested_parts = AbsentList
       <=> \/ vector_searches = <<>>
           \/ \A k \in 1..Len(vector_searches[1].metadatas) :
                 vector_searches[1].metadatas[k].part_number \notin PartNumbers

\* C14 as stated: whenever the Installation handler resolves no part
\* identifier, it attempts a similarity search over the raw query and the
\* result carries NO_PART_NUMBER with at most 3 candidate parts.
C14_NoPartSearches == InstallHoldsNoPart => SoftRecovery

\* C14, amended: that holds when the message is not a duration-style query;
\* a duration-style query without a part identifier gets the time-estimate
\* clarification, code NO_PART_NUMBER_FOR_TIME_ESTIMATE, without any search.
C14_NoPartSearchesUnlessDuration ==
    InstallHoldsNoPart
    => IF AsksDuration
       THEN /\ result.returned.error = "NO_PART_NUMBER_FOR_TIME_ESTIMATE"
            /\ result.finds = 0
            /\ vector_searches = <<>>
            /\ result.returned.suggested_parts = AbsentList
       ELSE SoftRecovery

\* Three candidates are offered out of a collection that ranks five parts.
C14_Witness ==
    /\ InstallHoldsNoPart
    /\ ~AsksDuration
    /\ result.returned.error = "NO_PART_NUMBER"
    /\ Len(vector_searches) = 1
    /\ Len(vector_searches[1].metadatas) = 3
    /\ result.returned.suggested_parts = <<"PS100", "PS11752778", "PS300">>

\* The part has no installation step recorded (an empty list, or no list).
ZeroSteps(p) == installation_steps[p] \in {<<>>, NullList}

\* C15 as stated: whenever the Installation handler resolves a part of the
\* catalog with zero recorded installation steps, the result reports
\* NO_INSTALLATION_STEPS with generic guidance.
C15_ZeroStepsReported ==
    \A p \in PartNumbers :
        (InstallHolds(p) /\ ZeroSteps(p))
        => /\ result.returned.error = "NO_INSTALLATION_STEPS"
           /\ Contains(result.returned.response, "not currently available")

\* C15, amended: that holds when the message is not a duration-style query,
\* and then the completion service is not asked for a narrative; a
\* duration-style query gets the time estimate of the part, with no error.
C15_ZeroStepsReportedUnlessDuration ==
    \A p \in PartNumbers :
        (InstallHolds(p) /\ ZeroSteps(p))
        => IF AsksDuration
           THEN /\ result.returned.error = Absent
                /\ result.returned.estimated_time # Absent
                /\ result.returned.steps = AbsentList
           ELSE /\ result.returned.error = "NO_INSTALLATION_STEPS"
                /\ Contains(result.returned.response, "not currently available")
                /\ result.returned.part_number = p
                /\ result.returned.steps = AbsentList
                /\ llm_narrative = None

\* PS200, named in the message, has an empty list of steps.
C15_Witness ==
    /\ InstallHolds("PS200")
    /\ ~AsksDuration
    /\ installation_steps["PS200"] = <<>>
    /\ result.returned.error = "NO_INSTALLATION_STEPS"
    /\ result.returned.part_number = "PS200"

(***************************************************************************)
(* Claims about every handler                                              *)
(***************************************************************************)

\* A handler was called and returned a dict.
Returned == op # "none" /\ ~result.raised

\* The error code of the returned dict, Absent when it has none.
ReturnedError == IF Returned THEN result.returned.error ELSE Absent

\* The two codes the taxonomy gives to the Installation handler alone.
InstallationCodes == {"NO_PART_NUMBER", "NO_INSTALLATION_STEPS"}

\* C16 as stated: every error code a handler puts in a result is one of
\* MISSING_BOTH, MISSING_PART_NUMBER, MISSING_MODEL_NUMBER, PART_NOT_FOUND,
\* NO_PART_NUMBER, NO_INSTALLATION_STEPS; the MISSING_* codes come from the
\* Compatibility handler only and the NO_* codes from the Installation
\* handler only.
C16_ClosedTaxonomy ==
    /\ ReturnedError # Absent
       => ReturnedError \in MissingCodes \cup {"PART_NOT_FOUND"} \cup InstallationCodes
    /\ ReturnedError \in MissingCodes => op = "handle"
    /\ ReturnedError \in InstallationCodes => op = "install"

\* C16, amended: the taxonomy has a seventh code,
\* NO_PART_NUMBER_FOR_TIME_ESTIMATE, which only the Installation handler
\* produces, for a duration-style query without a part identifier; with it
\* the taxonomy is closed and the attribution of codes to handlers holds.
C16_ClosedTaxonomyOfSeven ==
    /\ ReturnedError # Absent
       => ReturnedError \in MissingCodes \cup {"PART_NOT_FOUND"} \cup InstallationCodes
                            \cup {"NO_PART_NUMBER_FOR_TIME_ESTIMATE"}
    /\ ReturnedError \in MissingCodes => op = "handle"
    /\ ReturnedError \in InstallationCodes \cup {"NO_PART_NUMBER_FOR_TIME_ESTIMATE"}
       => op = "install"
    /\ ReturnedError = "NO_PART_NUMBER_FOR_TIME_ESTIMATE"
       => AsksDuration /\ ~Truthy(result.part_number)
    /\ ReturnedError = "PART_NOT_FOUND" => op \in {"handle", "install"}
    /\ op \in {"troubleshoot", "search"} => ReturnedError = Absent

\* A duration-style query without any part identifier gets the seventh code.
C16_Witness ==
    /\ op = "install"
    /\ ~result.raised
    /\ AsksDuration
    /\ ~Truthy(result.part_number)
    /\ result.returned.error = "NO_PART_NUMBER_FOR_TIME_ESTIMATE"

\* The completion service answered every request the handler made of it.
CompletionServiceAnswered ==
    /\ llm_response # LlmFailure
    /\ llm_narrative # LlmFailure

CompletionServiceFailed ==
    \/ llm_response = LlmFailure
    \/ llm_narrative = LlmFailure

\* C18 as stated: when the completion service fails during a call of the
\* Compatibility, Installation, Product Search or Troubleshooting handler,
\* during entity extraction or narrative generation, the handler still
\* returns a result instead of raising.
C18_OutageKeepsResult ==
    (op # "none" /\ CompletionServiceFailed)
    => /\ ~result.raised
       /\ result.returned # NoResult

(***************************************************************************)
(* Troubleshooting and category claims                                     *)
(***************************************************************************)

\* The parts the similarity search of the call found in the catalog.
Candidates ==
    IF vector_searches = <<>> THEN <<>>
    ELSE PartRows(vector_searches[1].metadatas)

\* C19: the result of the Troubleshooting handler carries no error code and
\* at most 3 suggested parts, the first candidates of the search; when the
\* search yields no candidate part the handler returns the fixed
\* clarification text without calling the completion service.
C19_TroubleshootingSoftFailure ==
    op = "troubleshoot"
    => /\ Len(vector_searches) = 1
       /\ vector_searches[1].query = user_message
       /\ ~result.raised
          => /\ result.returned.error = Absent
             /\ Len(result.returned.suggested_parts) <= 3
             /\ result.returned.suggested_parts = FirstN(Candidates, 3)
       /\ Candidates = <<>>
          => /\ ~result.raised
             /\ result.returned.response = ClarificationText
             /\ result.returned.suggested_parts = <<>>
             /\ llm_calls = 0
             /\ llm_narrative = None

\* The search of a leak query, filtered to the refrigerators the history
\* names, yields no hit: the clarification text is returned.
C19_Witness ==
    /\ op = "troubleshoot"
    /\ ~result.raised
    /\ user_message = "my dishwasher is leaking"
    /\ Len(vector_searches) = 1
    /\ vector_searches[1].category_filter = "Refrigerator"
    /\ Candidates = <<>>
    /\ result.returned.response = ClarificationText
    /\ result.returned.error = Absent
    /\ llm_calls = 0

\* The appliance category the current message names by its canonical term.
MessageCategory ==
    IF Contains(Lower(user_message), "dishwasher") THEN "Dishwasher"
    ELSE IF Contains(Lower(user_message), "refrigerator") THEN "Refrigerator"
    ELSE None

\* The Product Search or Troubleshooting handler searched by similarity,
\* no category having been passed to it as an argument.
FusedSearch ==
    /\ op \in {"search", "troubleshoot"}
    /\ vector_searches # <<>>
    /\ op = "search" => result.category_arg = None

\* C20 as stated: the category that filters the similarity search of the
\* Product Search and Troubleshooting handlers is the one the current
\* message names when it names one; a category from the history is used
\* only when the message names none.
C20_MessageCategoryFirst ==
    (FusedSearch /\ MessageCategory # None)
    => vector_searches[1].category_filter = MessageCategory

(***************************************************************************)
(* Product search claims                                                   *)
(***************************************************************************)

\* ProductSearchAgent.handle_query returned on a message with one of the
\* similar/alternative keywords, a part identifier having been recovered
\* from the history.
SimilarWithReference ==
    /\ op = "search"
    /\ ~result.raised
    /\ IsSimilarQuery(user_message)
    /\ Truthy(result.reference_part)

\* The reference part is among the parts of the returned dict.
ReturnsReference ==
    \E k \in 1..Len(result.returned.parts) :
        result.returned.parts[k] = result.reference_part

\* The hits of the logged search that the parts table has, the reference
\* part left out.
Alternatives ==
    IF vector_searches = <<>> THEN <<>>
    ELSE SelectSeq(PartRows(vector_searches[1].metadatas),
                   LAMBDA p : p # result.reference_part)

\* C21 as stated: for a similar/alternative query with a reference part
\* recovered from history, the parts returned never include the reference
\* part, and at most 5 are returned.
C21_ReferenceExcluded ==
    SimilarWithReference
    => /\ ~ReturnsReference
       /\ Len(result.returned.parts) <= 5

\* C21, amended: that holds when the message is not also a meta-query, and
\* then the result lists the first 3 of the up to 5 alternatives found, the
\* search being made with the reference part's own category when the
\* catalog has that part; a meta-query is answered with sample parts, one
\* per subcategory, whatever the reference part.
C21_ReferenceExcludedUnlessMeta ==
    SimilarWithReference
    => IF result.meta
       THEN /\ vector_searches = <<>>
            /\ result.returned.parts = SampleParts(result.category)
       ELSE /\ ~ReturnsReference
            /\ Len(vector_searches) = 1
            /\ result.returned.parts = FirstN(FirstN(Alternatives, 5), 3)
            /\ result.reference_part \in PartNumbers
               => /\ vector_searches[1].n_results = 6
                  /\ vector_searches[1].category_filter
                         = PartCategory[result.reference_part]

\* Alternatives to PS11752778, recovered from the history: the search hits
\* the reference part itself, and the two other dishwasher parts are returned.
C21_Witness ==
    /\ SimilarWithReference
    /\ ~result.meta
    /\ result.reference_part = "PS11752778"
    /\ Len(vector_searches) = 1
    /\ \E k \in 1..Len(vector_searches[1].metadatas) :
          vector_searches[1].metadatas[k].part_number = "PS11752778"
    /\ result.returned.parts = <<"PS200", "PS400">>

(***************************************************************************)
(* Catalog lookup and history extraction claims                            *)
(***************************************************************************)

\* C24 as stated: every part identifier the compatibility endpoint passes
\* to the Catalog Store lookup is uppercased before the query, so that a
\* part stored under an uppercase identifier is found in whatever letter
\* case it was typed.
C24_LookupsUppercased ==
    op = "check"
    => /\ \A k \in 1..Len(db_queries) : db_queries[k] = Upper(db_queries[k])
       /\ Upper(arg_part) \in PartNumbers
          => result.check.error # "PART_NOT_FOUND"

\* The matches of the model pattern in a text that are not part identifiers.
ModelTokens(content) ==
    SelectSeq(ModelFindAll(content), LAMBDA m : ~IsPartIdentifier(Upper(m)))

\* The turns of the last 4 that contain such a match.
WindowModelTurns ==
    {k \in 1..Len(conversation_history) :
        /\ k > Len(conversation_history) - 4
        /\ ModelTokens(conversation_history[k].content) # <<>>}

\* C25 as stated: whenever some turn among the last 4 contains a match of
\* the model pattern that is not a part identifier, extract_from_history
\* returns the first such match of the earliest such turn, uppercased,
\* whether or not part identifiers occur before it in that turn.
C25_ModelFromHistory ==
    (op = "history" /\ WindowModelTurns # {})
    => LET first == CHOOSE k \in WindowModelTurns :
                        \A j \in WindowModelTurns : k <= j
       IN result.model_number
              = Upper(ModelTokens(conversation_history[first].content)[1])

(***************************************************************************)
(* Installation history scan claims                                        *)
(***************************************************************************)

\* C26: extract_part_from_history is consulted only when neither the
\* explicit argument nor the message yields a part identifier, and what it
\* returns is the part identifier, uppercased, of the latest turn among the
\* last 4 that contains one, or nothing when no turn of the last 4 does.
C26_LatestTurnWins ==
    (op = "install" /\ history_scans = 1) =>
        /\ ~Truthy(arg_part)
        /\ PartTokens(user_message) = {}
        /\ ~result.raised
        /\ result.part_number =
              IF WindowPartTurns = {} THEN None
              ELSE LET last == CHOOSE k \in WindowPartTurns :
                                  \A j \in WindowPartTurns : j <= k
                       tokens == Tokens(conversation_history[last].content)
                   IN Upper(tokens[CHOOSE i \in PartTokens(conversation_history[last].content) :
                               \A j \in PartTokens(conversation_history[last].content) : i <= j])

\* The history is scanned with part identifiers in the first, second and
\* fourth of five turns: the fourth turn's identifier is returned.
C26_Witness ==
    /\ op = "install"
    /\ history_scans = 1
    /\ Len(conversation_history) = 5
    /\ Cardinality(WindowPartTurns) = 2
    /\ result.part_number = "PS100"

(***************************************************************************)
(* Router and Installation handler agreement                               *)
(***************************************************************************)

\* C30: whenever route would return INSTALLATION_HELP through pre-rule 1 for
\* the message and history, InstallationAgent.handle_query on the same
\* message and history with a responding completion service returns the
\* result of the duration sub-flow for a non-empty part number, never the
\* clarification NO_PART_NUMBER_FOR_TIME_ESTIMATE; and unless the completion
\* service supplied the part number, it is a part identifier.
C30_RouterContextResolves ==
    (/\ op = "install"
     /\ PreRule(user_message, conversation_history) = 1
     /\ llm_response # LlmFailure) =>
        /\ ~result.raised
        /\ Truthy(result.part_number)
        /\ result.returned = HandleTimeEstimateQuery(result.part_number)
        /\ result.returned.error # "NO_PART_NUMBER_FOR_TIME_ESTIMATE"
        /\ (Truthy(arg_part) \/ llm_response \in {None, "NONE", ""})
           => IsPartIdentifier(result.part_number)

\* A duration question without a part identifier, routed by the part in the
\* last turn of the history: the handler estimates for that part.
C30_Witness ==
    /\ op = "install"
    /\ user_message = "how long to install"
    /\ arg_part = None
    /\ llm_response = "NONE"
    /\ PreRule(user_message, conversation_history) = 1
    /\ history_scans = 1
    /\ result.part_number = "PS100"
    /\ result.returned.estimated_time # Absent

(***************************************************************************)
(* Specification SpecSession: the HTTP layer of app.py on one session.     *)
(* Chat requests run to completion; a streaming request reads the stored   *)
(* history when it arrives and then advances from one yield to the next,   *)
(* so other requests and clear_conversation run in between.                *)
(***************************************************************************)

MaxRequests == 2

\* conversation_history[-10:]
RetainedTurns == 10

\* What the agents' variables hold: the HTTP layer never touches them.
Core == <<Inputs, Collaborators, op, llm_calls, llm_response, history_scans,
          db_queries, result>>

RECURSIVE SplitSpaces(_)
\* str.split(" "): the pieces between single spaces, empty pieces kept.
SplitSpaces(s) ==
    IF \A k \in 1..Len(s) : CharAt(s, k) # " " THEN <<s>>
    ELSE LET i == CHOOSE k \in 1..Len(s) :
                      /\ CharAt(s, k) = " "
                      /\ \A j \in 1..(k - 1) : CharAt(s, j) # " "
         IN <<SubSeq(s, 1, i - 1)>> \o SplitSpaces(SubSeq(s, i + 1, Len(s)))

\* A turn as the endpoints record it.  The timestamp stands for
\* datetime.now(): old turns carry 0, a request's turns its number.
Turn(role, content, timestamp) ==
    [role |-> role, content |-> content, timestamp |-> timestamp]

\* A stored history of n turns from earlier requests.
OldTurns(n) ==
    [k \in 1..n |-> Turn(IF k % 2 = 1 THEN "user" ELSE "assistant",
                         "old " \o ToString(k), 0)]

\* request.message of the i-th request.
RequestMessage(i) == "question " \o ToString(i)

\* dict.get(key) on a string-valued and on a list-valued key.
DictGet(value) == IF value = Absent THEN None ELSE value
DictGetList(value) == IF value = AbsentList THEN NullList ELSE value

\* What orchestrator.handle_query returns: a result in the response
\* contract, with response, agent and category always set.
OrchestratorResults ==
    {[raised |-> FALSE, response |-> "Yes!", agent |-> "compatibility",
      category |-> "COMPATIBILITY_CHECK", parts |-> AbsentList,
      suggested_parts |-> AbsentList, compatible |-> PyTrue,
      steps |-> AbsentList, part_number |-> "PS100"],
     [raised |-> FALSE, response |-> "Found  it\n", agent |-> "product_search",
      category |-> "PRODUCT_SEARCH", parts |-> <<"PS200">>,
      suggested_parts |-> AbsentList, compatible |-> Absent,
      steps |-> AbsentList, part_number |-> Absent],
     [raised |-> FALSE, response |-> " Unplug it", agent |-> "installation",
      category |-> "INSTALLATION_HELP", parts |-> AbsentList,
      suggested_parts |-> <<"PS300">>, compatible |-> Absent,
      steps |-> <<"Unplug", "Swap">>, part_number |-> "PS300"]}

\* orchestrator.handle_query raises.
OrchestratorRaised ==
    [raised |-> TRUE, response |-> None, agent |-> Absent, category |-> Absent,
     parts |-> AbsentList, suggested_parts |-> AbsentList,
     compatible |-> Absent, steps |-> AbsentList, part_number |-> Absent]

OrchestratorOutcomes == OrchestratorResults \cup {OrchestratorRaised}

\* A request that has not arrived.
Idle ==
    [kind |-> "none", pc |-> "idle", history |-> 0,
     result |-> OrchestratorRaised, words |-> <<>>, accumulated_text |-> "",
     sent |-> <<>>]

\* conversations.get(session_id, []): the list object the request works on,
\* which is the stored one or a new empty one, and the objects after the call.
GetHistory ==
    IF conversations # 0 THEN [ref |-> conversations, lists |-> lists]
    ELSE [ref |-> Len(lists) + 1, lists |-> Append(lists, <<>>)]

\* The history update of both endpoints: two appends to the request's list
\* object, then conversations[session_id] = conversation_history[-10:],
\* which is a new list object (the last of the objects returned).
UpdateHistory(objects, ref, message, content, timestamp) ==
    LET appended == [objects EXCEPT ![ref] =
                        @ \o <<Turn("user", message, timestamp),
                               Turn("assistant", content, timestamp)>>]
    IN Append(appended, LastN(appended[ref], RetainedTurns))

\* The ChatResponse that chat builds from a result.
ChatResponse(res) ==
    [type |-> "response", response |-> res.response,
     agent |-> IF res.agent = Absent THEN "unknown" ELSE res.agent,
     category |-> IF res.category = Absent THEN "unknown" ELSE res.category,
     parts |-> DictGetList(res.parts),
     suggested_parts |-> DictGetList(res.suggested_parts),
     compatible |-> DictGet(res.compatible),
     steps |-> DictGetList(res.steps)]

\* HTTPException(status_code=500)
HttpError == [type |-> "http_error", status_code |-> 500]

\* Variant: the user turn is appended before the orchestrator is called.
ChatRun_AppendsFirst(got, stored, message, outcome, timestamp) ==
    IF outcome.raised
    THEN [lists |-> [got.lists EXCEPT ![got.ref] =
                        @ \o <<Turn("user", message, timestamp)>>],
          conversations |-> stored,
          sent |-> <<HttpError>>, pc |-> "failed"]
    ELSE [lists |-> UpdateHistory(got.lists, got.ref, message,
                                  outcome.response, timestamp),
          conversations |-> Len(got.lists) + 1,
          sent |-> <<ChatResponse(outcome)>>, pc |-> "done"]

\* The body of chat after conversations.get, `got` being what the get
\* returned, `stored` the stored list object and `outcome` what the
\* orchestrator does: the objects and the stored object after the request,
\* and what the client receives.
ChatRun(got, stored, message, outcome, timestamp) ==
    IF outcome.raised
    THEN [lists |-> got.lists, conversations |-> stored,
          sent |-> <<HttpError>>, pc |-> "failed"]
    ELSE [lists |-> UpdateHistory(got.lists, got.ref, message,
                                  outcome.response, timestamp),
          conversations |-> Len(got.lists) + 1,
          sent |-> <<ChatResponse(outcome)>>, pc |-> "done"]

\* The chunks of event_generator.
ContentChunk(word) ==
    [type |-> "content", content |-> word \o " ", done |-> FALSE]

ErrorChunk == [type |-> "error", done |-> TRUE]

\* Variant: the metadata chunk carries no steps.
MetadataChunk_NoSteps(res) ==
    [type |-> "metadata", agent |-> DictGet(res.agent),
     category |-> DictGet(res.category), parts |-> DictGetList(res.parts),
     suggested_parts |-> DictGetList(res.suggested_parts),
     compatible |-> DictGet(res.compatible), steps |-> NullList,
     done |-> TRUE]

MetadataChunk(res) ==
    [type |-> "metadata", agent |-> DictGet(res.agent),
     category |-> DictGet(res.category), parts |-> DictGetList(res.parts),
     suggested_parts |-> DictGetList(res.suggested_parts),
     compatible |-> DictGet(res.compatible), steps |-> DictGetList(res.steps),
     done |-> TRUE]

\* generate_followup_questions(user_query, result)
GenerateFollowupQuestions(res) ==
    LET parts == IF res.parts \in {AbsentList, NullList} THEN <<>> ELSE res.parts
        suggested == IF res.suggested_parts \in {AbsentList, NullList} THEN <<>>
                     ELSE res.suggested_parts
        suggestions ==
            IF res.category = "PRODUCT_SEARCH" /\ parts # <<>>
            THEN <<"How do I install " \o parts[1] \o "?",
                   "Is " \o parts[1] \o " compatible with my appliance?",
                   "What are common issues with " \o PartName[parts[1]] \o "?">>
            ELSE IF res.category = "COMPATIBILITY_CHECK"
            THEN IF Truthy(DictGet(res.part_number))
                 THEN <<"How do I install part " \o res.part_number \o "?",
                        "Show me similar parts",
                        "What tools do I need for installation?">>
                 ELSE <<>>
            ELSE IF res.category = "INSTALLATION_HELP"
            THEN <<"What if the part doesn't fit?",
                   "How long does installation take?",
                   "Do I need special tools?">>
            ELSE IF res.category = "TROUBLESHOOTING" /\ suggested # <<>>
            THEN <<"Tell me more about " \o PartName[suggested[1]],
                   "How do I install " \o suggested[1] \o "?",
                   "Show me installation videos">>
            ELSE <<>>
    IN FirstN(IF suggestions = <<>>
              THEN <<"Show me popular refrigerator parts",
                     "Find dishwasher replacement parts",
                     "How do I troubleshoot my appliance?">>
              ELSE suggestions, 3)

SuggestionChunk(res) ==
    [type |-> "suggestions", suggestions |-> GenerateFollowupQuestions(res)]

\* The session is new, or holds 2 or 10 turns of earlier requests.
StoredLengths == {0, 2, RetainedTurns}

InitSession ==
    /\ user_message = ""
    /\ conversation_history = <<>>
    /\ arg_part = None
    /\ arg_model = None
    /\ op = "none"
    /\ llm_calls = 0
    /\ llm_response = None
    /\ llm_narrative = None
    /\ vector_searches = <<>>
    /\ history_scans = 0
    /\ db_queries = <<>>
    /\ result = NoResult
    /\ requests = [i \in 1..MaxRequests |-> Idle]
    /\ erased = {}
    /\ \E n \in StoredLengths :
          IF n = 0 THEN conversations = 0 /\ lists = <<>>
          ELSE conversations = 1 /\ lists = <<OldTurns(n)>>

\* The i-th request may arrive: the requests arrive in the order of their
\* numbers.
Arrives(i) ==
    /\ requests[i].kind = "none"
    /\ i > 1 => requests[i - 1].kind # "none"

\* POST /api/chat: the whole of chat, which never awaits.
Chat ==
    /\ \E i \in 1..MaxRequests :
         /\ Arrives(i)
         /\ \E outcome \in OrchestratorOutcomes :
            \E run \in {ChatRun(GetHistory, conversations, RequestMessage(i),
                                outcome, i)} :
               /\ lists' = run.lists
               /\ conversations' = run.conversations
               /\ requests' = [requests EXCEPT ![i] =
                      [@ EXCEPT !.kind = "chat", !.pc = run.pc,
                                !.result = outcome, !.sent = run.sent]]
    /\ UNCHANGED <<Core, erased>>

\* POST /api/chat/stream up to the StreamingResponse: the stored history is
\* read before event_generator runs.
StreamStart ==
    /\ \E i \in 1..MaxRequests :
         /\ Arrives(i)
         /\ lists' = GetHistory.lists
         /\ requests' = [requests EXCEPT ![i] =
                [@ EXCEPT !.kind = "stream", !.pc = "started",
                          !.history = GetHistory.ref]]
    /\ UNCHANGED <<Core, conversations, erased>>

\* event_generator from its start to the first yield: the orchestrator
\* call, the split, and the first content chunk or the error chunk.
StreamProcess ==
    /\ \E i \in 1..MaxRequests :
         /\ requests[i].pc = "started"
         /\ \E outcome \in OrchestratorOutcomes :
            \E words \in {SplitSpaces(outcome.response)} :
               requests' = [requests EXCEPT ![i] =
                   IF outcome.raised
                   THEN [@ EXCEPT !.pc = "failed", !.sent = <<ErrorChunk>>]
                   ELSE [@ EXCEPT !.pc = "content", !.result = outcome,
                                  !.words = words,
                                  !.accumulated_text = words[1] \o " ",
                                  !.sent = <<ContentChunk(words[1])>>]]
    /\ UNCHANGED <<Core, conversations, lists, erased>>

\* The loop resumes after asyncio.sleep and yields the next content chunk.
StreamContent ==
    /\ \E i \in 1..MaxRequests :
         /\ requests[i].pc = "content"
         /\ Len(requests[i].sent) < Len(requests[i].words)
         /\ \E word \in {requests[i].words[Len(requests[i].sent) + 1]} :
               requests' = [requests EXCEPT ![i] =
                   [@ EXCEPT !.accumulated_text = @ \o word \o " ",
                             !.sent = Append(@, ContentChunk(word))]]
    /\ UNCHANGED <<Core, conversations, lists, erased>>

\* The loop is over: the metadata chunk is yielded.
StreamMetadata ==
    /\ \E i \in 1..MaxRequests :
         /\ requests[i].pc = "content"
         /\ Len(requests[i].sent) = Len(requests[i].words)
         /\ requests' = [requests EXCEPT ![i] =
                [@ EXCEPT !.pc = "metadata",
                          !.sent = Append(@, MetadataChunk(requests[i].result))]]
    /\ UNCHANGED <<Core, conversations, lists, erased>>

\* The follow-up suggestions are yielded.
StreamSuggestions ==
    /\ \E i \in 1..MaxRequests :
         /\ requests[i].pc = "metadata"
         /\ requests' = [requests EXCEPT ![i] =
                [@ EXCEPT !.pc = "suggestions",
                          !.sent = IF GenerateFollowupQuestions(requests[i].result) # <<>>
                                   THEN Append(@, SuggestionChunk(requests[i].result))
                                   ELSE @]]
    /\ UNCHANGED <<Core, conversations, lists, erased>>

\* The generator's last step: the history update on the list object read
\* when the request arrived.
StreamFinish ==
    /\ \E i \in 1..MaxRequests :
         /\ requests[i].pc = "suggestions"
         /\ lists' = UpdateHistory(lists, requests[i].history, RequestMessage(i),
                                   Strip(requests[i].accumulated_text), i)
         /\ conversations' = Len(lists) + 1
         /\ requests' = [requests EXCEPT ![i] = [@ EXCEPT !.pc = "done"]]
    /\ UNCHANGED <<Core, erased>>

\* DELETE /api/conversation/{session_id}
ClearConversation ==
    /\ conversations' = 0
    /\ erased' = IF conversations # 0
                 THEN erased \cup {lists[conversations][k] :
                                      k \in 1..Len(lists[conversations])}
                 ELSE erased
    /\ UNCHANGED <<Core, lists, requests>>

NextSession ==
    \/ Chat
    \/ StreamStart
    \/ StreamProcess
    \/ StreamContent
    \/ StreamMetadata
    \/ StreamSuggestions
    \/ StreamFinish
    \/ ClearConversation

SpecSession == InitSession /\ [][NextSession]_vars

\* The stored history of the session, as get_conversation returns it.
Stored == IF conversations = 0 THEN <<>> ELSE lists[conversations]

(***************************************************************************)
(* Session history and streaming claims                                    *)
(***************************************************************************)

\* The i-th request obtains a handler result and completes in this step.
Completes(i) == requests[i].pc # "done" /\ requests'[i].pc = "done"

\* The step leaves the stored list object and every list object as it was.
HistoryKept ==
    /\ conversations' = conversations
    /\ \A k \in 1..Len(lists) : lists'[k] = lists[k]

\* The stored history after the step is the last 10 turns of the stored
\* history before it followed by the user message and the assistant
\* response of the i-th request (the response up to surrounding blanks).
Extends(i) ==
    /\ Len(Stored') >= 2
    /\ Stored'[Len(Stored')].role = "assistant"
    /\ Strip(Stored'[Len(Stored')].content) = Strip(requests'[i].result.response)
    /\ Stored' = LastN(Stored \o <<Turn("user", RequestMessage(i), i),
                                   Stored'[Len(Stored')]>>,
                       RetainedTurns)

\* C22 as stated: the stored history never holds more than 10 turns; a
\* request that obtains a handler result extends the stored history by its
\* user turn and its assistant turn, truncated to the last 10; and no step
\* of a request before that changes the stored history.
C22_HistoryExtension ==
    /\ [](Len(Stored) <= RetainedTurns)
    /\ [][IF \E i \in 1..MaxRequests : Completes(i)
          THEN \A i \in 1..MaxRequests : Completes(i) => Extends(i)
          ELSE Stored' = Stored \/ conversations' = 0]_vars

RECURSIVE ContentText(_)
\* The concatenation of the content chunks among the chunks sent.
ContentText(sent) ==
    IF sent = <<>> THEN ""
    ELSE (IF sent[1].type = "content" THEN sent[1].content ELSE "")
         \o ContentText(Tail(sent))

\* The positions of the chunks of a type among the chunks sent.
ChunksOfType(sent, type) == {k \in 1..Len(sent) : sent[k].type = type}

\* The order of the chunks of the i-th request and the payload of its
\* metadata chunk: content chunks only until the loop is over, then exactly
\* one metadata chunk after all of them, carrying what ChatResponse carries
\* for the same result; a single error chunk when processing failed.
StreamOrdered(i) ==
    LET sent == requests[i].sent
        metadata == ChunksOfType(sent, "metadata")
        response == ChatResponse(requests[i].result)
    IN /\ requests[i].pc = "content" => metadata = {}
       /\ requests[i].pc \in {"metadata", "suggestions", "done"} =>
             /\ Cardinality(metadata) = 1
             /\ ChunksOfType(sent, "error") = {}
             /\ \A k \in ChunksOfType(sent, "content") : \A m \in metadata : k < m
             /\ \A m \in metadata :
                   /\ sent[m].agent = response.agent
                   /\ sent[m].category = response.category
                   /\ sent[m].parts = response.parts
                   /\ sent[m].suggested_parts = response.suggested_parts
                   /\ sent[m].compatible = response.compatible
                   /\ sent[m].steps = response.steps
       /\ requests[i].pc = "failed" =>
             /\ Len(sent) = 1
             /\ sent[1].type = "error"

HoldsTurnsOf(i) ==
    \E k \in 1..(Len(Stored) - 1) :
        /\ Stored[k] = Turn("user", RequestMessage(i), i)
        /\ Stored[k + 1].role = "assistant"
        /\ Stored[k + 1].timestamp = i

\* C28 as stated: once every request of the session has completed with a
\* handler result and nothing was cleared, the stored history holds the two
\* turns of each of them, whether or not the requests overlapped and whether
\* the session was new or not.
C28_NoLostUpdate ==
    (/\ erased = {}
     /\ \A i \in 1..MaxRequests : requests[i].pc = "done")
    => \A i \in 1..MaxRequests : HoldsTurnsOf(i)

\* C29 as stated: the stored history never holds a turn that
\* clear_conversation removed.
C29_ClearIsEffective ==
    \A k \in 1..Len(Stored) : Stored[k] \notin erased

====
